---- MODULE Spec2Model ----
(***************************************************************************)
(* Model of the two-leg option trading backend (src/trade_PE_CE.py): the   *)
(* paper/live ledger kept by place_order, the per-leg OptionStrategy state *)
(* machine, the run_option_loop runner threads and the start/stop          *)
(* endpoints that create them.                                             *)
(*                                                                         *)
(* Prices are whole rupees.  Money kept by the ledger (profit, charges,    *)
(* day P&L, capital used, balance) is in paise, so that round(x, 2) of the *)
(* source is a rounding to a whole number.  Unrounded amounts are exact:   *)
(* a pair <<whole paise, fraction in 10^-7 paise>>.                        *)
(***************************************************************************)
EXTENDS Integers, Sequences, FiniteSets, TLC

\* ------------------------------------------------------------------
\* Configuration (src/trade_PE_CE.py:22-46)
\* ------------------------------------------------------------------
LTP_LOWER_BOUND == 100
LTP_UPPER_BOUND == 200
LOT_SIZE == 70
STOP_LOSS_OFFSET == 20
TRAIL_OFFSET == 3
TRAIL_THRESHOLD == 2
TRAIL_INITIAL == 1
BROKERAGE_PER_ORDER == 20
\* the rates, times 10^7
STT_RATE == 6250
TRANSACTION_RATE == 3503
STAMP_DUTY_RATE == 300
SEBI_TURNOVER == 10
IPFT_RATE == 50
\* GST_RATE, in percent
GST_RATE == 18
\* current_balance = 100000.0 rupees, in paise
InitialBalance == 100000 * 100

\* ------------------------------------------------------------------
\* Bounds of the model
\* ------------------------------------------------------------------
\* threads the start endpoints may create in one run
MaxThreads == 2
\* records a leg's trade log may hold when one leg runs alone
MaxTrades == 2
\* records the two trade logs may hold together when the whole program runs
MaxTotalTrades == 4
\* place_order calls that record a fill, when the ledger is driven directly
MaxLedgerCalls == 3
\* in-range prices above LTP_LOWER_BOUND that the market data provider returns
MaxRise == 1
\* the same, where the trailing stop is followed over a longer rise
MaxTick == 4
\* failed attempts of one ensure_instrument call that are counted
MaxAttempts == 6
\* instruments in the option chain that strike_prices fetches
MaxChain == 3
\* strikes in the option chain that findstrikeprice.strike_prices scans
MaxScan == 2

Legs == {"CE", "PE"}
Threads == 1 .. MaxThreads
NoKey == "none"
Keys == {"NSE_FO|1", "NSE_FO|2"}
\* what get_ltp_rest may return when it succeeds: one price below the range,
\* the in-range prices from the lower bound up, one price above the range
Prices == {LTP_LOWER_BOUND - 1} \cup (LTP_LOWER_BOUND .. LTP_LOWER_BOUND + MaxRise)
            \cup {LTP_UPPER_BOUND + 1}

\* Python's None / a value: the empty sequence / a one-element sequence
None == << >>
Some(v) == << v >>
Val(o) == o[1]

Min(a, b) == IF a <= b THEN a ELSE b

\* ------------------------------------------------------------------
\* Exact amounts: <<whole paise, fraction of a paise in units of 10^-7>>
\* ------------------------------------------------------------------
FracUnit == 10 * 1000 * 1000

AmtNorm(a) == << a[1] + (a[2] \div FracUnit), a[2] % FracUnit >>

AmtAdd(a, b) == AmtNorm(<< a[1] + b[1], a[2] + b[2] >>)

\* base (rupees) * rate (times 10^7), as paise: base * rate / 10^5
AmtRate(base, rate) ==
    << (base * rate) \div (FracUnit \div 100),
       ((base * rate) % (FracUnit \div 100)) * 100 >>

\* a * pct / 100
AmtPct(a, pct) ==
    AmtNorm(<< (a[1] * pct) \div 100,
               ((a[1] * pct) % 100) * (FracUnit \div 100) + (a[2] * pct) \div 100 >>)

\* round(x, 2) of an amount in rupees: to the nearest paise, ties to even
Round2(a) ==
    IF 2 * a[2] > FracUnit THEN a[1] + 1
    ELSE IF 2 * a[2] < FracUnit THEN a[1]
    ELSE IF a[1] % 2 = 0 THEN a[1] ELSE a[1] + 1

ChargeKeys == {"brokerage", "stt", "txn_charges", "stamp_duty", "sebi", "ipft",
               "gst", "total"}

Abs(x) == IF x < 0 THEN -x ELSE x

calculate_charges(entry_price, exit_price, qty) ==
    LET turnover == (entry_price + exit_price) * qty
        brokerage == << 2 * BROKERAGE_PER_ORDER * 100, 0 >>
        stt == AmtRate(Abs(exit_price) * qty, STT_RATE)
        txn_charges == AmtRate(turnover, TRANSACTION_RATE)
        stamp_duty == AmtRate(entry_price * qty, STAMP_DUTY_RATE)
        sebi == AmtRate(turnover, SEBI_TURNOVER)
        ipft == AmtRate(turnover, IPFT_RATE)
        gst == AmtPct(AmtAdd(brokerage, txn_charges), GST_RATE)
        total == AmtAdd(brokerage, AmtAdd(stt, AmtAdd(txn_charges,
                   AmtAdd(stamp_duty, AmtAdd(sebi, AmtAdd(ipft, gst))))))
    IN  [brokerage |-> brokerage, stt |-> stt, txn_charges |-> txn_charges,
         stamp_duty |-> stamp_duty, sebi |-> sebi, ipft |-> ipft,
         gst |-> gst, total |-> total]

\* ------------------------------------------------------------------
\* State
\* ------------------------------------------------------------------
VARIABLES
    USE_LIVE_TRADING,   \* TRADING_MODE == "live" (the editable configuration)
    ltp_range,          \* LTP_LOWER_BOUND / LTP_UPPER_BOUND (editable as well)
    running,            \* ce_running / pe_running, by leg
    trades,             \* ce_trades / pe_trades, by leg
    day_pnl,            \* ce_day_pnl / pe_day_pnl, paise
    capital_used,       \* ce_capital_used / pe_capital_used, paise
    current_balance,    \* paise
    saved,              \* by leg, the records handed to save_trade_to_file
    cache,              \* by leg, the key in instrument_data_{mode}.json
    thr,                \* by thread, the run_option_loop frame and its strategy
    last,               \* by thread, what its latest process_price_update did
    run,                \* by thread, the history of its LONG run
    fill,               \* by leg, the place_order call in progress, line by line
    reader,             \* the get_full_summary call in progress, line by line
    chain,              \* the option chain the market data provider returns
    picked,             \* what strike_prices returned for it
    ce4                 \* the globals of the single-leg program trade_CE4.py

vars == << USE_LIVE_TRADING, ltp_range, running, trades, day_pnl, capital_used,
           current_balance, saved, cache, thr, last, run,
           fill, reader, chain, picked, ce4 >>

\* the variables of the line-by-line calls and of the strike selection,
\* which the runner's steps leave alone
asideVars == << fill, reader, chain, picked, ce4 >>

ledgerVars == << trades, day_pnl, capital_used, current_balance, saved >>

\* the ledger globals as one value, for the operators that transform them
Ledger ==
    [trades |-> trades, day_pnl |-> day_pnl, capital_used |-> capital_used,
     current_balance |-> current_balance, saved |-> saved]

SetLedger(L) ==
    /\ trades' = L.trades
    /\ day_pnl' = L.day_pnl
    /\ capital_used' = L.capital_used
    /\ current_balance' = L.current_balance
    /\ saved' = L.saved

\* ------------------------------------------------------------------
\* place_order
\* ------------------------------------------------------------------
\* the last BUY of a trade list, whatever its instrument
LastBuy_AnyInstrument(list, instrument_key) ==
    LET hits == {i \in 1 .. Len(list) : list[i].action = "BUY"}
    IN  IF hits = {} THEN 0 ELSE CHOOSE i \in hits : \A j \in hits : j <= i

\* the index of the last BUY on instrument_key in a trade list, 0 when none
LastBuy(list, instrument_key) ==
    LET hits == {i \in 1 .. Len(list) :
                    /\ list[i].instrument_key = instrument_key
                    /\ list[i].action = "BUY"}
    IN  IF hits = {} THEN 0 ELSE CHOOSE i \in hits : \A j \in hits : j <= i

\* charges cut to whole paise instead of rounded
RoundCharges_Truncated(c) == [k \in ChargeKeys |-> c[k][1]]

\* charges = {k: round(v, 2) for k, v in charges.items()}
RoundCharges(c) == [k \in ChargeKeys |-> Round2(c[k])]

\* every fill booked on the CE leg
TargetLeg_AlwaysCE(mode) == "CE"

\* lines 313-316 and 337-342: the leg whose list and counters a fill touches
TargetLeg(mode) == IF mode = "CE" THEN "CE" ELSE "PE"

\* the capital used left as it was
CapitalAfter_Unchanged(used, entry_price) == used

\* lines 339 / 342: ce_capital_used += entry_price * LOT_SIZE (paise)
CapitalAfter(used, entry_price) == used + entry_price * LOT_SIZE * 100

\* the day P&L update lost
DayPnlAfter_Lost(pnl, net_profit) == pnl

\* ce_day_pnl += net_profit / pe_day_pnl += net_profit
DayPnlAfter(pnl, net_profit) == pnl + net_profit

\* place_order(instrument_key, side, price, mode) on ledger L, with price
\* given (every caller passes one); http_ok is whether the broker accepted
\* the order, which matters in live trading only.  [ok, ledger].
\* matched_buy is not a field of the source's record: it notes the index of
\* the BUY that last_buy found (0: none), for stating properties.
place_order(L, instrument_key, side, price, mode, http_ok) ==
    LET trade_data ==
            [instrument_key |-> instrument_key, strike_price_mode |-> mode,
             action |-> side, quantity |-> LOT_SIZE, price |-> price,
             mode |-> IF USE_LIVE_TRADING THEN "LIVE" ELSE "PAPER",
             charges |-> None, gross_profit |-> None, net_profit |-> None,
             day_pnl |-> None, matched_buy |-> 0]
        target_list == Append(L.trades[TargetLeg(mode)], trade_data)
        n == Len(target_list)
        L1 == [L EXCEPT !.trades[TargetLeg(mode)] = target_list,
                        !.saved[TargetLeg(mode)] = Append(@, trade_data)]
        last_buy == LastBuy(target_list, instrument_key)
        entry_price == target_list[last_buy].price
        exit_price == price
        gross_profit == (exit_price - entry_price) * LOT_SIZE * 100
        charges == RoundCharges(calculate_charges(entry_price, exit_price, LOT_SIZE))
        net_profit == gross_profit - charges.total
        new_pnl == DayPnlAfter(L.day_pnl[TargetLeg(mode)], net_profit)
        L2 == [L1 EXCEPT
                 !.trades[TargetLeg(mode)][n] =
                     [@ EXCEPT !.gross_profit = Some(gross_profit),
                               !.net_profit = Some(net_profit),
                               !.charges = Some(charges),
                               !.day_pnl = Some(new_pnl),
                               !.matched_buy = last_buy],
                 !.day_pnl[TargetLeg(mode)] = new_pnl,
                 !.capital_used[TargetLeg(mode)] = CapitalAfter(@, entry_price),
                 !.current_balance = @ + net_profit]
    IN  IF USE_LIVE_TRADING /\ ~http_ok
        THEN [ok |-> FALSE, ledger |-> L]
        ELSE IF side = "SELL" /\ last_buy # 0
             THEN [ok |-> TRUE, ledger |-> L2]
             ELSE [ok |-> TRUE, ledger |-> L1]

\* no place_order call is in progress for the leg
NoFill ==
    [pc |-> "idle", n |-> 0, entry_price |-> 0, gross_profit |-> 0,
     net_profit |-> 0, charges |-> None, balance |-> 0]

\* no get_full_summary call is in progress and none has returned
NoReader ==
    [pc |-> "idle", overall_day_pnl |-> 0, overall_capital_used |-> 0,
     out |-> None]

\* trade_CE4.py, lines 18-22: its globals as the file sets them (day_pnl is
\* an exact amount, the others are whole paise); closed notes that
\* run_rest_api_strategy has returned
CE4Globals ==
    [paper_trades |-> << >>, day_pnl |-> << 0, 0 >>, overall_pnl |-> 0,
     capital_used |-> 0, closed |-> FALSE]

\* strike_prices was not called
NoPick == [called |-> FALSE, expiry |-> 0, ce_strike |-> None, pe_strike |-> None]

\* ------------------------------------------------------------------
\* get_full_summary
\* ------------------------------------------------------------------
get_full_summary ==
    [ce |-> [day_pnl |-> day_pnl["CE"], capital_used |-> capital_used["CE"],
             trades |-> trades["CE"]],
     pe |-> [day_pnl |-> day_pnl["PE"], capital_used |-> capital_used["PE"],
             trades |-> trades["PE"]],
     overall |-> [day_pnl |-> day_pnl["CE"] + day_pnl["PE"],
                  capital_used |-> capital_used["CE"] + capital_used["PE"],
                  current_balance |-> current_balance]]

\* ------------------------------------------------------------------
\* OptionStrategy (the strategy fields live in the thread's record)
\* ------------------------------------------------------------------
\* a thread that was not started yet.  ltp is ensure_instrument's local: the
\* LTP that the returning attempt of the thread's latest call fetched, None
\* while a call runs and once the loop has gone on
Unborn ==
    [leg |-> "none", pc |-> "unborn", ctx |-> "none",
     instrument_key |-> NoKey, bought |-> FALSE,
     entry |-> None, stop |-> None, peak |-> None, prev_price |-> None,
     consecutive_errors |-> 0, retry_delay |-> 0, attempts |-> 0,
     ltp |-> None]

\* no process_price_update call is the thread's latest step
NoCall ==
    [branch |-> "none", leg |-> "none", key |-> NoKey, ltp |-> 0, prev |-> None,
     order |-> "NONE", ok |-> FALSE, was_bought |-> FALSE, rotated |-> FALSE,
     entry |-> None, stop |-> None, peak_before |-> None, peak |-> None,
     trail_exit |-> None, trail_stop |-> None,
     appended |-> 0, pnl_delta |-> 0, capital_delta |-> 0, balance_delta |-> 0]

ConfiguredRange == [lower |-> LTP_LOWER_BOUND, upper |-> LTP_UPPER_BOUND]

InRange(ltp) == ltp_range.lower <= ltp /\ ltp <= ltp_range.upper

\* reset_position that forgets to clear peak
reset_position_KeepsPeak(s) ==
    [s EXCEPT !.bought = FALSE, !.entry = None, !.stop = None]

reset_position(s) ==
    [s EXCEPT !.bought = FALSE, !.entry = None, !.stop = None, !.peak = None]

\* the entry rule without its check of bought
EntryCond_NoFlatCheck(s, ltp) ==
    s.prev_price # None /\ ltp > Val(s.prev_price)

\* an entry rule that buys on a tick equal to the previous one as well
EntryCond_NotStrict(s, ltp) ==
    ~s.bought /\ s.prev_price # None /\ ltp >= Val(s.prev_price)

\* the entry rule's condition
EntryCond(s, ltp) ==
    ~s.bought /\ s.prev_price # None /\ ltp > Val(s.prev_price)

\* the strategy after a BUY that place_order reported as placed
OpenPosition(s, ltp) ==
    [s EXCEPT !.bought = TRUE, !.entry = Some(ltp),
              !.stop = Some(ltp - STOP_LOSS_OFFSET), !.peak = Some(ltp)]

\* a BUY attempt whose result is ignored
AfterBuy_IgnoresResult(s, ltp, ok) == OpenPosition(s, ltp)

\* the strategy after a BUY attempt with result ok
AfterBuy(s, ltp, ok) == IF ok THEN OpenPosition(s, ltp) ELSE s

\* a peak that follows the latest tick
NewPeak_Latest(s, ltp) == ltp

\* peak after a tick while bought
NewPeak(s, ltp) == IF ltp > Val(s.peak) THEN ltp ELSE Val(s.peak)

\* a trailing distance with the two distances the other way round
trail_exit_Swapped(s, ltp) ==
    IF ltp <= Val(s.entry) + TRAIL_THRESHOLD THEN TRAIL_OFFSET ELSE TRAIL_INITIAL

\* the dynamic trailing distance
trail_exit(s, ltp) ==
    IF ltp <= Val(s.entry) + TRAIL_THRESHOLD THEN TRAIL_INITIAL ELSE TRAIL_OFFSET

trail_stop(s, ltp) == NewPeak(s, ltp) - trail_exit(s, ltp)

\* an exit rule that sells at every tick
ExitCond_Always(s, ltp) == TRUE

\* the exit rule's condition
ExitCond(s, ltp) == ltp <= trail_stop(s, ltp) \/ ltp <= Val(s.stop)

\* the note of a process_price_update(ltp) call on strategy s and ledger L
\* that took the branch, placed the order with result ok and left ledger L2:
\* prev and was_bought are prev_price and bought when it was called,
\* appended, pnl_delta and capital_delta what it added to the leg's log,
\* day P&L and capital used; rotated is set when its ensure_instrument
\* returns; entry, stop and peak_before are the fields when it was called,
\* peak, trail_exit and trail_stop what the exit rule computed (None where
\* the exit rule did not run)
Call(s, L, ltp, branch, order, ok, L2) ==
    LET exit_rule == branch \in {"hold", "exit"}
    IN  [branch |-> branch, leg |-> s.leg, key |-> s.instrument_key,
         ltp |-> ltp, prev |-> s.prev_price, order |-> order,
         ok |-> ok, was_bought |-> s.bought, rotated |-> FALSE,
         entry |-> s.entry, stop |-> s.stop, peak_before |-> s.peak,
         peak |-> IF exit_rule THEN Some(NewPeak(s, ltp)) ELSE None,
         trail_exit |-> IF exit_rule THEN Some(trail_exit(s, ltp)) ELSE None,
         trail_stop |-> IF exit_rule THEN Some(trail_stop(s, ltp)) ELSE None,
         appended |-> Len(L2.trades[s.leg]) - Len(L.trades[s.leg]),
         pnl_delta |-> L2.day_pnl[s.leg] - L.day_pnl[s.leg],
         capital_delta |-> L2.capital_used[s.leg] - L.capital_used[s.leg],
         balance_delta |-> L2.current_balance - L.current_balance]

\* the position kept after the SELL
AfterSell_StaysLong(s, ok) == s

\* the strategy after a SELL attempt of the exit rule with result ok
AfterSell(s, ok) == reset_position(s)

\* an out-of-range tick that leaves the position as it is
OnOutOfRange_KeepsPosition(s) == s

\* the strategy when a tick is outside the LTP range, before ensure_instrument
OnOutOfRange(s) == reset_position(s)

\* process_price_update(ltp), ltp not None, up to its call of
\* ensure_instrument: [s: the strategy, ledger, rotate: ensure_instrument is
\* entered, call: what the call did]
process_price_update(s, L, ltp, http_ok) ==
    IF ~InRange(ltp)
    THEN [s |-> OnOutOfRange(s), ledger |-> L, rotate |-> TRUE,
          call |-> Call(s, L, ltp, "range", "NONE", FALSE, L)]
    ELSE IF EntryCond(s, ltp)
    THEN LET r == place_order(L, s.instrument_key, "BUY", ltp, s.leg, http_ok)
         IN  [s |-> [AfterBuy(s, ltp, r.ok) EXCEPT !.prev_price = Some(ltp)],
              ledger |-> r.ledger, rotate |-> FALSE,
              call |-> Call(s, L, ltp, "entry", "BUY", r.ok, r.ledger)]
    ELSE IF s.bought
    THEN LET s1 == [s EXCEPT !.peak = Some(NewPeak(s, ltp))]
         IN  IF ExitCond(s, ltp)
             THEN LET r == place_order(L, s.instrument_key, "SELL", ltp, s.leg,
                                       http_ok)
                  IN  [s |-> [AfterSell(s1, r.ok) EXCEPT !.prev_price = Some(ltp)],
                       ledger |-> r.ledger, rotate |-> FALSE,
                       call |-> Call(s, L, ltp, "exit", "SELL", r.ok, r.ledger)]
             ELSE [s |-> [s1 EXCEPT !.prev_price = Some(ltp)],
                   ledger |-> L, rotate |-> FALSE,
                   call |-> Call(s, L, ltp, "hold", "NONE", FALSE, L)]
    ELSE [s |-> [s EXCEPT !.prev_price = Some(ltp)],
          ledger |-> L, rotate |-> FALSE,
          call |-> Call(s, L, ltp, "flat", "NONE", FALSE, L)]

\* whether process_price_update(ltp) calls place_order
PlacesOrder(s, ltp) ==
    InRange(ltp) /\ (EntryCond(s, ltp) \/ (s.bought /\ ExitCond(s, ltp)))

\* no LONG run is noted
NoRun ==
    [max |-> None, peak |-> None, prev_peak |-> None,
     trail_stop |-> None, prev_trail_stop |-> None]

Max(a, b) == IF a >= b THEN a ELSE b

\* the history of a thread's LONG run after the call noted as call, r being
\* the history before it: max is the greatest of the entry price and the
\* ticks the exit rule has seen since, peak and trail_stop are what the
\* exit rule computed at the latest tick, prev_peak and prev_trail_stop
\* what it computed at the tick before
RunNote(r, call) ==
    IF call.branch = "entry" /\ call.ok
    THEN [NoRun EXCEPT !.max = Some(call.ltp), !.peak = Some(call.ltp)]
    ELSE IF call.branch \in {"hold", "exit"}
    THEN [max |-> IF r.max = None THEN Some(call.ltp)
                  ELSE Some(Max(Val(r.max), call.ltp)),
          peak |-> call.peak, prev_peak |-> r.peak,
          trail_stop |-> call.trail_stop, prev_trail_stop |-> r.trail_stop]
    ELSE NoRun

\* a step of thread t other than a process_price_update call: the history
\* is kept while the position is
KeepRun(t) == run' = [run EXCEPT ![t] = IF thr'[t].bought THEN @ ELSE NoRun]

\* entering ensure_instrument from the place ctx
EnterEnsure(s, ctx) ==
    [s EXCEPT !.pc = "ensure", !.ctx = ctx, !.retry_delay = 2, !.attempts = 0,
              !.ltp = None]

\* ------------------------------------------------------------------
\* Initial state: the module's globals as the file sets them
\* ------------------------------------------------------------------
\* cached: the keys an instrument_data_{mode}.json left by an earlier run
\* may hold (NoKey: no file); range: the LTP range configured
Globals(cached, range) ==
    /\ USE_LIVE_TRADING \in BOOLEAN
    /\ ltp_range = range
    /\ running = [l \in Legs |-> FALSE]
    /\ trades = [l \in Legs |-> << >>]
    /\ day_pnl = [l \in Legs |-> 0]
    /\ capital_used = [l \in Legs |-> 0]
    /\ current_balance = InitialBalance
    /\ saved = [l \in Legs |-> << >>]
    /\ cache \in {[l \in Legs |-> k] : k \in cached}
    /\ thr = [t \in Threads |-> Unborn]
    /\ last = [t \in Threads |-> NoCall]
    /\ run = [t \in Threads |-> NoRun]
    /\ fill = [l \in Legs |-> NoFill]
    /\ reader = NoReader
    /\ ce4 = CE4Globals

\* the same, before any option chain was fetched
InitOf(cached, range) ==
    /\ Globals(cached, range)
    /\ chain = << >>
    /\ picked = NoPick

\* the file as it is: LTP_LOWER_BOUND .. LTP_UPPER_BOUND
InitWith(cached) == InitOf(cached, ConfiguredRange)

\* what the broker may answer to an order: in paper trading no request is made
HttpResults == IF USE_LIVE_TRADING THEN BOOLEAN ELSE {TRUE}

\* what get_ltp_rest may return, given the prices P: None or a price
LtpResults(P) == {None} \cup {Some(p) : p \in P}

\* what get_ltp_rest(new_key) may return in ensure_instrument, which asks
\* only when get_new_instrument found a key
KeyLtpResults(new_key, P) == IF new_key = NoKey THEN {None} ELSE LtpResults(P)

\* the outcomes of the stale check that follows thread t's ensure_instrument:
\* open only where the error branch called it (elsewhere last_price_time
\* was just set)
StaleResults(t) == IF thr[t].ctx = "errors" THEN BOOLEAN ELSE {FALSE}

\* ------------------------------------------------------------------
\* The start / stop endpoints
\* ------------------------------------------------------------------
UnbornThreads == {t \in Threads : thr[t].pc = "unborn"}

\* api_start_ce / api_start_pe
api_start(leg) ==
    /\ ~running[leg]
    /\ UnbornThreads # {}
    /\ LET t == CHOOSE u \in UnbornThreads : \A v \in UnbornThreads : u <= v
       IN  thr' = [thr EXCEPT ![t] = [Unborn EXCEPT !.leg = leg, !.pc = "init"]]
    /\ running' = [running EXCEPT ![leg] = TRUE]
    /\ UNCHANGED << USE_LIVE_TRADING, ltp_range, asideVars, ledgerVars, cache, last, run >>

\* api_stop_ce / api_stop_pe
api_stop(leg) ==
    /\ running[leg]
    /\ running' = [running EXCEPT ![leg] = FALSE]
    /\ UNCHANGED << USE_LIVE_TRADING, ltp_range, asideVars, ledgerVars, cache, thr, last, run >>

\* ------------------------------------------------------------------
\* run_option_loop
\* ------------------------------------------------------------------
\* OptionStrategy(mode) and the check that an instrument is ready: with a
\* cached instrument, prev_price is what get_ltp_rest returns; without one,
\* ensure_instrument is entered
RunnerInit(t, ltp) ==
    /\ thr[t].pc = "init"
    /\ LET s == thr[t]
           inst == cache[s.leg]
       IN  thr' = [thr EXCEPT ![t] =
                IF inst # NoKey
                THEN [s EXCEPT !.pc = "loop", !.instrument_key = inst,
                               !.prev_price = ltp]
                ELSE EnterEnsure(s, "init")]
    /\ last' = [last EXCEPT ![t] = NoCall]
    /\ KeepRun(t)
    /\ UNCHANGED << USE_LIVE_TRADING, ltp_range, asideVars, running, ledgerVars, cache >>

\* where the loop body goes on after the stale check with outcome stale
AfterStaleCheck(s, stale) ==
    IF stale THEN EnterEnsure(reset_position(s), "stale")
    ELSE [s EXCEPT !.pc = "loop", !.ctx = "none", !.retry_delay = 0,
                   !.attempts = 0]

\* the strategy and frame when ensure_instrument returns to the place ctx
\* (stale: the outcome of the stale check that follows the error branch)
AfterEnsure(s, stale) ==
    IF s.ctx = "range"
    THEN AfterStaleCheck([s EXCEPT !.consecutive_errors = 0], FALSE)
    ELSE IF s.ctx = "errors"
    THEN AfterStaleCheck([s EXCEPT !.consecutive_errors = 0], stale)
    ELSE AfterStaleCheck(s, FALSE)

\* the retry delay doubled without limit
NextDelay_Uncapped(retry_delay) == retry_delay * 2

\* the retry delay after a failed attempt
NextDelay(retry_delay) == Min(retry_delay * 2, 60)

\* the strategy after a failed attempt of ensure_instrument; attempts is not
\* a field of the source: it counts the call's failed attempts so far (up to
\* MaxAttempts), for stating properties
FailedAttempt(s) ==
    [s EXCEPT !.retry_delay = NextDelay(@),
              !.attempts = Min(@ + 1, MaxAttempts)]

\* any instrument accepted whose LTP could be fetched
Accepts_AnyPrice(ltp) == ltp # None

\* ensure_instrument accepts the instrument whose LTP it fetched
Accepts(ltp) == ltp # None /\ InRange(Val(ltp))

\* one pass of ensure_instrument's loop: get_new_instrument returns new_key
\* (NoKey: nothing found) and has cached it; get_ltp_rest(new_key) returns ltp
EnsureAttempt(t, new_key, ltp, stale) ==
    /\ thr[t].pc = "ensure"
    /\ LET s == thr[t]
       IN  IF new_key = NoKey
           THEN /\ thr' = [thr EXCEPT ![t] = FailedAttempt(@)]
                /\ UNCHANGED cache
                /\ UNCHANGED last
           ELSE /\ cache' = [cache EXCEPT ![s.leg] = new_key]
                /\ IF Accepts(ltp)
                   THEN /\ thr' = [thr EXCEPT ![t] =
                              AfterEnsure([s EXCEPT !.instrument_key = new_key,
                                                    !.prev_price = ltp,
                                                    !.ltp = ltp], stale)]
                        /\ last' = [last EXCEPT ![t].rotated =
                                        (last[t].branch = "range")]
                   ELSE /\ thr' = [thr EXCEPT ![t] = FailedAttempt(@)]
                        /\ UNCHANGED last
    /\ KeepRun(t)
    /\ UNCHANGED << USE_LIVE_TRADING, ltp_range, asideVars, running, ledgerVars >>

\* one iteration of the polling loop in which get_ltp_rest returned ltp
LoopTick(t, ltp, http_ok) ==
    /\ thr[t].pc = "loop"
    /\ running[thr[t].leg]
    /\ LET r == process_price_update([thr[t] EXCEPT !.ltp = None], Ledger,
                                     ltp, http_ok)
       IN  /\ thr' = [thr EXCEPT ![t] =
                  IF r.rotate THEN EnterEnsure(r.s, "range")
                  ELSE AfterStaleCheck([r.s EXCEPT !.consecutive_errors = 0], FALSE)]
           /\ SetLedger(r.ledger)
           /\ last' = [last EXCEPT ![t] = r.call]
           /\ run' = [run EXCEPT ![t] = RunNote(@, r.call)]
    /\ UNCHANGED << USE_LIVE_TRADING, ltp_range, asideVars, running, cache >>

\* the instrument given up after two failed fetches
TooManyErrors_Two(consecutive_errors) == consecutive_errors >= 2

\* line 555: if consecutive_errors >= 3
TooManyErrors(consecutive_errors) == consecutive_errors >= 3

\* one iteration of the polling loop in which get_ltp_rest returned nothing;
\* stale: more than 60 s have passed since the last price
LoopNoPrice(t, stale) ==
    /\ thr[t].pc = "loop"
    /\ running[thr[t].leg]
    /\ LET s == [thr[t] EXCEPT !.consecutive_errors = @ + 1, !.ltp = None]
       IN  thr' = [thr EXCEPT ![t] =
               IF TooManyErrors(s.consecutive_errors)
               THEN EnterEnsure(reset_position(s), "errors")
               ELSE AfterStaleCheck(s, stale)]
    /\ last' = [last EXCEPT ![t] = NoCall]
    /\ KeepRun(t)
    /\ UNCHANGED << USE_LIVE_TRADING, ltp_range, asideVars, running, ledgerVars, cache >>

\* the loop condition fails: square off if bought, and the thread ends
\* (get_ltp_rest returned exit_price); what was done is noted as the
\* thread's latest call, with branch "squareoff"
RunnerExit(t, exit_price, http_ok) ==
    /\ thr[t].pc = "loop"
    /\ ~running[thr[t].leg]
    /\ LET s == thr[t]
       IN  IF s.bought /\ exit_price # None
           THEN LET r == place_order(Ledger, s.instrument_key, "SELL",
                                     Val(exit_price), s.leg, http_ok)
                IN  /\ SetLedger(r.ledger)
                    /\ last' = [last EXCEPT ![t] =
                                   Call(s, Ledger, Val(exit_price), "squareoff",
                                        "SELL", r.ok, r.ledger)]
           ELSE /\ UNCHANGED ledgerVars
                /\ last' = [last EXCEPT ![t] =
                               Call(s, Ledger, 0, "squareoff", "NONE", FALSE,
                                    Ledger)]
    /\ thr' = [thr EXCEPT ![t].pc = "done", ![t].ltp = None]
    /\ KeepRun(t)
    /\ UNCHANGED << USE_LIVE_TRADING, ltp_range, asideVars, running, cache >>

\* ------------------------------------------------------------------
\* One leg's runner: a leg is started once, and its thread polls the
\* prices Prices of the instruments Keys until it is stopped; the run is
\* followed while the leg's log holds at most MaxTrades records
\* ------------------------------------------------------------------
Init == InitWith({NoKey} \cup Keys)

StartOnce(leg) == UnbornThreads = Threads /\ api_start(leg)

Room == \A l \in Legs : Len(trades'[l]) <= MaxTrades

Next ==
    \/ \E leg \in Legs : StartOnce(leg)
    \/ \E leg \in Legs : api_stop(leg)
    \/ \E t \in Threads, ltp \in LtpResults(Prices) : RunnerInit(t, ltp)
    \/ \E t \in Threads, new_key \in {NoKey} \cup Keys :
          \E ltp \in KeyLtpResults(new_key, Prices), stale \in StaleResults(t) :
             EnsureAttempt(t, new_key, ltp, stale)
    \/ \E t \in Threads, ltp \in Prices, http_ok \in HttpResults :
          LoopTick(t, ltp, http_ok) /\ Room
    \/ \E t \in Threads, stale \in BOOLEAN : LoopNoPrice(t, stale)
    \/ \E t \in Threads, exit_price \in LtpResults(Prices), http_ok \in HttpResults :
          RunnerExit(t, exit_price, http_ok) /\ Room

Spec == Init /\ [][Next]_vars

\* ------------------------------------------------------------------
\* The threads of both legs, started and stopped at any time, with a
\* market data provider that always answers the polling loop with an
\* in-range price and always finds the one instrument OneKey; the run is
\* followed while the logs hold at most MaxTotalTrades records
\* ------------------------------------------------------------------
OneKey == {"NSE_FO|1"}
FewPrices == {LTP_LOWER_BOUND, LTP_LOWER_BOUND + 1}

\* the number of records in the two trade logs
TotalTrades == Len(trades["CE"]) + Len(trades["PE"])

ConcRoom == TotalTrades' <= MaxTotalTrades

ConcInit == InitWith({NoKey})

ConcNext ==
    \/ \E leg \in Legs : api_start(leg)
    \/ \E leg \in Legs : api_stop(leg)
    \/ \E t \in Threads, ltp \in LtpResults(FewPrices) : RunnerInit(t, ltp)
    \/ \E t \in Threads, new_key \in OneKey, ltp \in FewPrices :
          EnsureAttempt(t, new_key, Some(ltp), FALSE)
    \/ \E t \in Threads, ltp \in FewPrices, http_ok \in HttpResults :
          LoopTick(t, ltp, http_ok) /\ ConcRoom
    \/ \E t \in Threads, exit_price \in LtpResults(FewPrices), http_ok \in HttpResults :
          RunnerExit(t, exit_price, http_ok) /\ ConcRoom

ConcSpec == ConcInit /\ [][ConcNext]_vars

\* ------------------------------------------------------------------
\* The trailing stop: one leg's runner on the one instrument OneKey, polling
\* prices that rise up to MaxTick above the lower bound or jump to GapPrice,
\* more than STOP_LOSS_OFFSET above them
\* ------------------------------------------------------------------
GapPrice == LTP_LOWER_BOUND + MaxTick + STOP_LOSS_OFFSET + 1

TrailPrices ==
    {LTP_LOWER_BOUND - 1} \cup (LTP_LOWER_BOUND .. LTP_LOWER_BOUND + MaxTick)
        \cup {GapPrice}

TrailInit == InitWith(OneKey)

TrailNext ==
    \/ \E leg \in Legs : StartOnce(leg)
    \/ \E leg \in Legs : api_stop(leg)
    \/ \E t \in Threads, ltp \in LtpResults(TrailPrices) : RunnerInit(t, ltp)
    \/ \E t \in Threads, new_key \in OneKey, ltp \in FewPrices :
          EnsureAttempt(t, new_key, Some(ltp), FALSE)
    \/ \E t \in Threads, ltp \in TrailPrices, http_ok \in HttpResults :
          LoopTick(t, ltp, http_ok) /\ Room
    \/ \E t \in Threads, exit_price \in LtpResults(TrailPrices), http_ok \in HttpResults :
          RunnerExit(t, exit_price, http_ok) /\ Room

TrailSpec == TrailInit /\ [][TrailNext]_vars

\* ------------------------------------------------------------------
\* The file configured with the LTP range 90 .. 110: one leg's runner on
\* the cached instrument OneKey, polling the prices 95, 100 and 105
\* ------------------------------------------------------------------
ScenarioRange == [lower |-> 90, upper |-> 110]

ScenarioTicks == {95, 100, 105}

ScenarioInit == InitOf(OneKey, ScenarioRange)

ScenarioNext ==
    \/ \E leg \in Legs : StartOnce(leg)
    \/ \E leg \in Legs : api_stop(leg)
    \/ \E t \in Threads, ltp \in LtpResults(ScenarioTicks) : RunnerInit(t, ltp)
    \/ \E t \in Threads, ltp \in ScenarioTicks, http_ok \in HttpResults :
          LoopTick(t, ltp, http_ok) /\ Room
    \/ \E t \in Threads, exit_price \in LtpResults(ScenarioTicks), http_ok \in HttpResults :
          RunnerExit(t, exit_price, http_ok) /\ Room

ScenarioSpec == ScenarioInit /\ [][ScenarioNext]_vars

\* ------------------------------------------------------------------
\* Stopping a leg: one leg's runner, started once and stopped at any time,
\* with a provider that may or may not find the instrument OneKey and
\* answers with prices in and below the range.  The polling is followed
\* while the leg's log holds at most MaxTrades records; the square-off on
\* exit is never held back.  Every thread that can take a step eventually
\* takes one (its sleeps end and its requests time out), but nothing makes
\* the provider come up with an acceptable instrument: a pass of
\* ensure_instrument may fail every time.
\* ------------------------------------------------------------------
StopPrices == {LTP_LOWER_BOUND - 1} \cup FewPrices

StopInit == InitWith({NoKey} \cup OneKey)

StopNext ==
    \/ \E leg \in Legs : StartOnce(leg)
    \/ \E leg \in Legs : api_stop(leg)
    \/ \E t \in Threads, ltp \in LtpResults(StopPrices) : RunnerInit(t, ltp)
    \/ \E t \in Threads, new_key \in {NoKey} \cup OneKey :
          \E ltp \in KeyLtpResults(new_key, StopPrices) :
             EnsureAttempt(t, new_key, ltp, FALSE)
    \/ \E t \in Threads, ltp \in StopPrices, http_ok \in HttpResults :
          LoopTick(t, ltp, http_ok) /\ Room
    \/ \E t \in Threads, exit_price \in LtpResults(StopPrices), http_ok \in HttpResults :
          RunnerExit(t, exit_price, http_ok)

\* the steps of thread t that its own progress brings about
ThreadStep(t) ==
    \/ \E ltp \in LtpResults(StopPrices) : RunnerInit(t, ltp)
    \/ \E new_key \in {NoKey} \cup OneKey :
          \E ltp \in KeyLtpResults(new_key, StopPrices) :
             ~Accepts(ltp) /\ EnsureAttempt(t, new_key, ltp, FALSE)
    \/ \E ltp \in StopPrices, http_ok \in HttpResults :
          LoopTick(t, ltp, http_ok) /\ Room
    \/ \E exit_price \in LtpResults(StopPrices), http_ok \in HttpResults :
          RunnerExit(t, exit_price, http_ok)

StopFair == \A t \in Threads : WF_vars(ThreadStep(t))

StopSpec == StopInit /\ [][StopNext]_vars /\ StopFair

\* ------------------------------------------------------------------
\* The ledger alone: place_order called with any leg, instrument, side and
\* price, until MaxLedgerCalls fills are recorded
\* ------------------------------------------------------------------
LedgerInit == InitWith({NoKey})

\* the call is noted as the latest call of thread 1, with branch "direct"
LedgerCall(mode, instrument_key, side, price, http_ok) ==
    /\ LET r == place_order(Ledger, instrument_key, side, price, mode, http_ok)
           caller == [Unborn EXCEPT !.leg = mode,
                                    !.instrument_key = instrument_key]
       IN  /\ SetLedger(r.ledger)
           /\ last' = [last EXCEPT ![1] =
                          Call(caller, Ledger, price, "direct", side, r.ok,
                               r.ledger)]
    /\ TotalTrades' <= MaxLedgerCalls
    /\ UNCHANGED << USE_LIVE_TRADING, ltp_range, asideVars, running, cache, thr, run >>

LedgerNext ==
    \E mode \in Legs, instrument_key \in Keys, side \in {"BUY", "SELL"},
       price \in FewPrices, http_ok \in HttpResults :
       LedgerCall(mode, instrument_key, side, price, http_ok)

LedgerSpec == LedgerInit /\ [][LedgerNext]_vars

\* ------------------------------------------------------------------
\* hybird_monitoring.TradeMonitor.calculate_pnl over a trade log.  The
\* average price of a position is kept as the exact fraction
\* avg_num / avg_den (the source divides floats), so that the sign of a
\* trade's pnl, which is all the win rate needs, is exact; every record of
\* a log carries quantity LOT_SIZE.
\* ------------------------------------------------------------------
\* line 88: positions[instrument] = {"quantity": 0, "avg_price": 0, ...}
NoPosition == [quantity |-> 0, avg_num |-> 0, avg_den |-> 1]

\* lines 94-98: a BUY adds to the position
AddToPosition(pos, trade) ==
    LET new_qty == pos.quantity + trade.quantity
    IN  [quantity |-> new_qty,
         avg_num |-> pos.avg_num * pos.quantity
                       + trade.price * trade.quantity * pos.avg_den,
         avg_den |-> pos.avg_den * new_qty]

\* lines 102-125: a SELL closes sell_qty of the position, at its average price
ClosePosition(pos, trade) ==
    LET sell_qty == Min(trade.quantity, pos.quantity)
    IN  IF pos.quantity - sell_qty <= 0 THEN NoPosition
        ELSE [pos EXCEPT !.quantity = @ - sell_qty]

\* line 100: elif trade["action"] == "SELL" and pos["quantity"] > 0
Closes(pos, trade) == trade.action = "SELL" /\ pos.quantity > 0

\* line 106 and 133: trade_pnl = sell_value - cost_basis is positive
PnlPositive(pos, trade) == trade.price * pos.avg_den > pos.avg_num

\* lines 84-125: the loop from record i on; positions by instrument, and
\* the number of completed trades and of those with pnl > 0 so far
RECURSIVE PnlFrom(_, _, _, _, _)
PnlFrom(list, i, positions, completed, wins) ==
    IF i > Len(list) THEN [completed_trades |-> completed, wins |-> wins]
    ELSE LET trade == list[i]
             pos == positions[trade.instrument_key]
         IN  IF trade.action = "BUY"
             THEN PnlFrom(list, i + 1,
                          [positions EXCEPT ![trade.instrument_key] =
                              AddToPosition(pos, trade)],
                          completed, wins)
             ELSE IF Closes(pos, trade)
             THEN PnlFrom(list, i + 1,
                          [positions EXCEPT ![trade.instrument_key] =
                              ClosePosition(pos, trade)],
                          completed + 1,
                          wins + (IF PnlPositive(pos, trade) THEN 1 ELSE 0))
             ELSE PnlFrom(list, i + 1, positions, completed, wins)

\* calculate_pnl(trades): completed_trades and win_rate, the latter as the
\* fraction << numerator, denominator >>
calculate_pnl(list) ==
    LET r == PnlFrom(list, 1, [k \in Keys |-> NoPosition], 0, 0)
    IN  [completed_trades |-> r.completed_trades,
         win_rate |-> IF r.completed_trades # 0
                      THEN << r.wins * 100, r.completed_trades >>
                      ELSE << 0, 1 >>]

\* the dashboard computes the figures of a leg's log, which is then left
\* as it is
MonitorRead(leg) ==
    /\ reader.out = None
    /\ reader' = [reader EXCEPT !.out =
                     Some([leg |-> leg, pnl |-> calculate_pnl(trades[leg])])]
    /\ UNCHANGED << USE_LIVE_TRADING, ltp_range, running, ledgerVars, cache, thr,
                    last, run, fill, chain, picked, ce4 >>

MonitorInit == LedgerInit

MonitorNext ==
    \/ \E mode \in Legs, instrument_key \in Keys, side \in {"BUY", "SELL"},
          price \in FewPrices, http_ok \in HttpResults :
          reader.out = None
             /\ LedgerCall(mode, instrument_key, side, price, http_ok)
    \/ \E leg \in Legs : MonitorRead(leg)

MonitorSpec == MonitorInit /\ [][MonitorNext]_vars

\* ------------------------------------------------------------------
\* trade_CE4.py: its place_order, the end of run_rest_api_strategy and
\* get_summary, over the program's globals ce4.  calculate_charges and the
\* rounding are those of trade_PE_CE.py (lines 301-320, 241-243 of
\* trade_CE4.py); orders are placed with any instrument, side and price
\* while the log holds fewer than MaxLedgerCalls records.
\* ------------------------------------------------------------------
\* place_order(key, side, price), lines 211-298: [ok, globals]
trade_CE4_place_order(G, key, side, price, http_ok) ==
    LET trade_data ==
            [instrument_key |-> key, strike_price_mode |-> "CE",
             action |-> side, quantity |-> LOT_SIZE, price |-> price,
             mode |-> IF USE_LIVE_TRADING THEN "LIVE" ELSE "PAPER",
             charges |-> None, gross_profit |-> None, net_profit |-> None,
             day_pnl |-> None, matched_buy |-> 0]
        searched == IF USE_LIVE_TRADING THEN G.paper_trades
                    ELSE Append(G.paper_trades, trade_data)
        last_buy == LastBuy(searched, key)
        entry_price == searched[last_buy].price
        gross_profit == (price - entry_price) * LOT_SIZE * 100
        charges == RoundCharges(calculate_charges(entry_price, price, LOT_SIZE))
        net_profit == gross_profit - charges.total
        overall_pnl == G.overall_pnl + net_profit
        filled == [trade_data EXCEPT !.gross_profit = Some(gross_profit),
                                     !.net_profit = Some(net_profit),
                                     !.charges = Some(charges),
                                     !.day_pnl = Some(overall_pnl),
                                     !.matched_buy = last_buy]
        matched == side = "SELL" /\ last_buy # 0
        record == IF matched THEN filled ELSE trade_data
        G1 == [G EXCEPT !.overall_pnl = IF matched THEN overall_pnl ELSE @]
    IN  IF USE_LIVE_TRADING
        THEN IF http_ok THEN [ok |-> TRUE, globals |-> G1]
             ELSE [ok |-> FALSE, globals |-> G]
        ELSE [ok |-> TRUE,
              globals |-> [G1 EXCEPT !.paper_trades = Append(@, record)]]

\* GET /api/summary, lines 123-131
get_summary == [day_pnl |-> ce4.day_pnl, capital_used |-> ce4.capital_used]

\* the strategy holds a position: the latest order recorded is a BUY
CE4Bought ==
    /\ ce4.paper_trades # << >>
    /\ ce4.paper_trades[Len(ce4.paper_trades)].action = "BUY"

\* an order placed while the strategy runs
CE4Order(key, side, price, http_ok) ==
    /\ ~ce4.closed
    /\ Len(ce4.paper_trades) < MaxLedgerCalls
    /\ ce4' = trade_CE4_place_order(ce4, key, side, price, http_ok).globals
    /\ UNCHANGED << USE_LIVE_TRADING, ltp_range, running, ledgerVars, cache, thr,
                    last, run, fill, reader, chain, picked >>

\* lines 502-511: the market closes; an open position is squared off at
\* exit_price if get_ltp_rest returned one, and its unrounded net profit
\* is added to day_pnl
CE4Close(exit_price, http_ok) ==
    /\ ~ce4.closed
    /\ LET list == ce4.paper_trades
           entry == list[Len(list)].price
           r == trade_CE4_place_order(ce4, list[Len(list)].instrument_key,
                                      "SELL", Val(exit_price), http_ok)
           gross_pnl == << (Val(exit_price) - entry) * LOT_SIZE * 100, 0 >>
           total == calculate_charges(entry, Val(exit_price), LOT_SIZE).total
           net_pnl == AmtNorm(<< gross_pnl[1] - total[1], gross_pnl[2] - total[2] >>)
       IN  IF CE4Bought /\ exit_price # None /\ r.ok
           THEN ce4' = [r.globals EXCEPT !.day_pnl = AmtAdd(@, net_pnl),
                                         !.closed = TRUE]
           ELSE ce4' = [ce4 EXCEPT !.closed = TRUE]
    /\ UNCHANGED << USE_LIVE_TRADING, ltp_range, running, ledgerVars, cache, thr,
                    last, run, fill, reader, chain, picked >>

CE4Init == InitWith({NoKey})

CE4Next ==
    \/ \E key \in Keys, side \in {"BUY", "SELL"}, price \in FewPrices,
          http_ok \in HttpResults : CE4Order(key, side, price, http_ok)
    \/ \E exit_price \in LtpResults(FewPrices), http_ok \in HttpResults :
          CE4Close(exit_price, http_ok)

CE4Spec == CE4Init /\ [][CE4Next]_vars

\* ------------------------------------------------------------------
\* The single-leg runners (trade_CE4v1.py, and trade_CE4.py, trade_PE3.py
\* alike): run_strategy polls like run_option_loop and its
\* process_price_update has the same branches, but it gives an instrument
\* up by clearing the flag current_instrument_valid (the thread's ctx
\* "invalid"), and calls find_new_instrument at the top of the next
\* iteration.  running[leg] stands for is_market_open().
\* ------------------------------------------------------------------
\* lines 477-496: an iteration in which get_ltp_rest returned nothing;
\* stale: more than 60 s have passed since the last price
LoopNoPrice_CE4v1(t, stale) ==
    /\ thr[t].pc = "loop"
    /\ running[thr[t].leg]
    /\ thr[t].ctx # "invalid"
    /\ LET s == [thr[t] EXCEPT !.consecutive_errors = @ + 1, !.ltp = None]
           many == TooManyErrors(s.consecutive_errors)
       IN  thr' = [thr EXCEPT ![t] =
               [s EXCEPT !.consecutive_errors = IF many THEN 0 ELSE @,
                         !.ctx = IF many \/ stale THEN "invalid" ELSE "none"]]
    /\ last' = [last EXCEPT ![t] = NoCall]
    /\ KeepRun(t)
    /\ UNCHANGED << USE_LIVE_TRADING, ltp_range, asideVars, running, ledgerVars, cache >>

\* lines 474-476: the flag is found cleared and find_new_instrument is
\* entered, with the strategy as it is
FindNew_CE4v1(t) ==
    /\ thr[t].pc = "loop"
    /\ running[thr[t].leg]
    /\ thr[t].ctx = "invalid"
    /\ thr' = [thr EXCEPT ![t] = EnterEnsure(@, "invalid")]
    /\ last' = [last EXCEPT ![t] = NoCall]
    /\ KeepRun(t)
    /\ UNCHANGED << USE_LIVE_TRADING, ltp_range, asideVars, running, ledgerVars, cache >>

\* an instrument is cached and its first price can be fetched
VariantInit == InitWith(Keys)

VariantNext ==
    \/ \E leg \in Legs : StartOnce(leg)
    \/ \E leg \in Legs : api_stop(leg)
    \/ \E t \in Threads, p \in Prices : RunnerInit(t, Some(p))
    \/ \E t \in Threads, new_key \in {NoKey} \cup Keys :
          \E ltp \in KeyLtpResults(new_key, Prices) :
             EnsureAttempt(t, new_key, ltp, FALSE)
    \/ \E t \in Threads, ltp \in Prices, http_ok \in HttpResults :
          thr[t].ctx # "invalid" /\ LoopTick(t, ltp, http_ok) /\ Room
    \/ \E t \in Threads, stale \in BOOLEAN : LoopNoPrice_CE4v1(t, stale)
    \/ \E t \in Threads : FindNew_CE4v1(t)
    \/ \E t \in Threads, exit_price \in LtpResults(Prices), http_ok \in HttpResults :
          RunnerExit(t, exit_price, http_ok) /\ Room

VariantSpec == VariantInit /\ [][VariantNext]_vars

\* ------------------------------------------------------------------
\* findstrikeprice2.strike_prices, applied to the instruments the broker
\* lists.  An instrument is [expiry, strike_price, option_type, ltp]:
\* expiries are numbered in date order (the source sorts ISO date strings;
\* 0 is its sentinel "0"), strike_price 0 is a missing one, and ltp is the
\* premium the instrument last traded at, which the listing does not carry
\* ------------------------------------------------------------------
Expiries == {1, 2}
Strikes == {0, LTP_LOWER_BOUND, LTP_UPPER_BOUND}
Premiums == {LTP_LOWER_BOUND, LTP_UPPER_BOUND + 1}

Instruments ==
    [expiry : Expiries, strike_price : Strikes, option_type : Legs,
     ltp : Premiums]

RECURSIVE SeqsUpTo(_, _)
SeqsUpTo(S, n) ==
    IF n = 0 THEN {<< >>}
    ELSE LET shorter == SeqsUpTo(S, n - 1)
         IN  shorter \cup {Append(q, x) : q \in {r \in shorter : Len(r) = n - 1},
                                          x \in S}

Chains == SeqsUpTo(Instruments, MaxChain)

\* the strikes of one side among the instruments of an expiry, as listed
RECURSIVE StrikesOf(_, _, _)
StrikesOf(instruments, expiry, option_type) ==
    IF instruments = << >> THEN << >>
    ELSE LET inst == Head(instruments)
             rest == StrikesOf(Tail(instruments), expiry, option_type)
         IN  IF /\ inst.expiry = expiry
                /\ inst.strike_price # 0
                /\ inst.option_type = option_type
             THEN << inst.strike_price >> \o rest
             ELSE rest

\* min(strikes, key=lambda x: abs(x - bound)): the first of the nearest
MinByDistance(strikes, bound) ==
    LET i == CHOOSE k \in 1 .. Len(strikes) :
                 /\ \A j \in 1 .. Len(strikes) :
                       Abs(strikes[k] - bound) <= Abs(strikes[j] - bound)
                 /\ \A j \in 1 .. k - 1 :
                       Abs(strikes[j] - bound) > Abs(strikes[k] - bound)
    IN  strikes[i]

\* strike_prices(client, lower_bound, upper_bound) when the request gives
\* instruments (http_ok) or fails: (expiry, ce_strike, pe_strike)
strike_prices(instruments, lower_bound, upper_bound, http_ok) ==
    LET failed == [called |-> TRUE, expiry |-> 0,
                   ce_strike |-> None, pe_strike |-> None]
        expiries == {instruments[i].expiry : i \in 1 .. Len(instruments)}
        nearest_expiry == CHOOSE x \in expiries : \A y \in expiries : x <= y
        ce_strikes == StrikesOf(instruments, nearest_expiry, "CE")
        pe_strikes == StrikesOf(instruments, nearest_expiry, "PE")
    IN  IF ~http_ok \/ instruments = << >> THEN failed
        ELSE IF ce_strikes = << >> \/ pe_strikes = << >> THEN failed
        ELSE [called |-> TRUE, expiry |-> nearest_expiry,
              ce_strike |-> Some(MinByDistance(ce_strikes, lower_bound)),
              pe_strike |-> Some(MinByDistance(pe_strikes, upper_bound))]

\* get_new_instrument's call of strike_prices
FetchStrikes(http_ok) ==
    /\ ~picked.called
    /\ picked' = strike_prices(chain, LTP_LOWER_BOUND, LTP_UPPER_BOUND, http_ok)
    /\ UNCHANGED << USE_LIVE_TRADING, ltp_range, running, ledgerVars, cache, thr,
                    last, run, fill, reader, chain, ce4 >>

StrikeInit ==
    /\ Globals({NoKey}, ConfiguredRange)
    /\ chain \in Chains
    /\ picked = NoPick

StrikeNext == \E http_ok \in BOOLEAN : FetchStrikes(http_ok)

StrikeSpec == StrikeInit /\ [][StrikeNext]_vars

\* ------------------------------------------------------------------
\* findstrikeprice.strike_prices, the selector that trade_PE_CE imports.
\* chain is what the broker answers: expiries, the list get_expiries
\* returns (sorted by date, empty on any failure; expiries are numbered in
\* date order), and data, the list get_option_chain returns for the
\* nearest expiry (empty on any failure).  An entry of data is
\* [strike_price, ce_ltp, pe_ltp], 0 standing for a missing value.
\* The tuple returned is kept in picked, its sentinel expiry "0" as 0.
\* ------------------------------------------------------------------
ScanStrikes == {0, 24900, 25000}
ScanPremiums == {0, LTP_LOWER_BOUND, LTP_UPPER_BOUND + 1}

Opts == [strike_price : ScanStrikes, ce_ltp : ScanPremiums, pe_ltp : ScanPremiums]

Answers ==
    [expiries : {<< >>, << 1 >>, << 1, 2 >>}, data : SeqsUpTo(Opts, MaxScan)]

\* a match replaced by every later strike in range
Match_Last(match, strike, ltp, price1, price2) ==
    IF ltp # 0 /\ price1 <= ltp /\ ltp <= price2 THEN Some(strike) ELSE match

\* lines 128-129 and 133-134: the match of a side after looking at a strike
Match(match, strike, ltp, price1, price2) ==
    IF match = None /\ ltp # 0 /\ price1 <= ltp /\ ltp <= price2
    THEN Some(strike)
    ELSE match

\* lines 109-139: the loop over the chain from entry i on, with the matches
\* found so far; << ce_match, pe_match >> when it ends
RECURSIVE ScanFrom(_, _, _, _, _, _)
ScanFrom(data, i, ce_match, pe_match, price1, price2) ==
    IF i > Len(data) THEN << ce_match, pe_match >>
    ELSE LET opt == data[i]
             strike == opt.strike_price
             ce == Match(ce_match, strike, opt.ce_ltp, price1, price2)
             pe == Match(pe_match, strike, opt.pe_ltp, price1, price2)
         IN  IF strike = 0
             THEN ScanFrom(data, i + 1, ce_match, pe_match, price1, price2)
             ELSE IF ce # None /\ pe # None
             THEN << ce, pe >>
             ELSE ScanFrom(data, i + 1, ce, pe, price1, price2)

\* findstrikeprice.strike_prices(client, price1, price2)
findstrikeprice_strike_prices(answer, price1, price2) ==
    LET failed == [called |-> TRUE, expiry |-> 0,
                   ce_strike |-> Some(0), pe_strike |-> Some(0)]
        expiry == answer.expiries[1]
        found == ScanFrom(answer.data, 1, None, None, price1, price2)
        ce_match == found[1]
        pe_match == found[2]
    IN  IF answer.expiries = << >> THEN failed
        ELSE IF answer.data = << >> THEN failed
        ELSE [called |-> TRUE, expiry |-> expiry,
              ce_strike |-> IF ce_match # None THEN ce_match ELSE Some(0),
              pe_strike |-> IF pe_match # None THEN pe_match ELSE Some(0)]

\* trade_PE_CE.get_new_instrument's call of strike_prices
ScanStrikePrices ==
    /\ ~picked.called
    /\ picked' = findstrikeprice_strike_prices(chain, LTP_LOWER_BOUND,
                                               LTP_UPPER_BOUND)
    /\ UNCHANGED << USE_LIVE_TRADING, ltp_range, running, ledgerVars, cache, thr,
                    last, run, fill, reader, chain, ce4 >>

ScanInit ==
    /\ Globals({NoKey}, ConfiguredRange)
    /\ chain \in Answers
    /\ picked = NoPick

ScanNext == ScanStrikePrices

ScanSpec == ScanInit /\ [][ScanNext]_vars

\* ------------------------------------------------------------------
\* place_order and get_full_summary line by line: the fills of the two
\* legs (one runner per leg, orders accepted) and a summary request of the
\* web server run in three threads that hold no lock, so any line of one
\* may run between two lines of another; 'current_balance += net_profit'
\* is a read followed by a write
\* ------------------------------------------------------------------
\* lines 295-333: the record is appended and handed to save_trade_to_file;
\* for a SELL that finds a BUY the profit is computed
FillAppend(mode, instrument_key, side, price) ==
    /\ fill[mode].pc = "idle"
    /\ LET trade_data ==
               [instrument_key |-> instrument_key, strike_price_mode |-> mode,
                action |-> side, quantity |-> LOT_SIZE, price |-> price,
                mode |-> IF USE_LIVE_TRADING THEN "LIVE" ELSE "PAPER",
                charges |-> None, gross_profit |-> None, net_profit |-> None,
                day_pnl |-> None, matched_buy |-> 0]
           target_list == Append(trades[mode], trade_data)
           last_buy == LastBuy(target_list, instrument_key)
           entry_price == target_list[last_buy].price
           gross_profit == (price - entry_price) * LOT_SIZE * 100
           charges == RoundCharges(calculate_charges(entry_price, price, LOT_SIZE))
       IN  /\ trades' = [trades EXCEPT ![mode] = target_list]
           /\ saved' = [saved EXCEPT ![mode] = Append(@, trade_data)]
           /\ fill' = [fill EXCEPT ![mode] =
                  IF side = "SELL" /\ last_buy # 0
                  THEN [pc |-> "appended", n |-> Len(target_list),
                        entry_price |-> entry_price,
                        gross_profit |-> gross_profit,
                        net_profit |-> gross_profit - charges.total,
                        charges |-> Some(charges), balance |-> 0]
                  ELSE NoFill]
    /\ UNCHANGED << USE_LIVE_TRADING, ltp_range, running, day_pnl, capital_used,
                    current_balance, cache, thr, last, run, reader, chain, picked, ce4 >>

\* lines 334-336: the profit fields of the record are filled
FillSetFields(mode) ==
    /\ fill[mode].pc = "appended"
    /\ trades' = [trades EXCEPT ![mode][fill[mode].n] =
                     [@ EXCEPT !.gross_profit = Some(fill[mode].gross_profit),
                               !.net_profit = Some(fill[mode].net_profit),
                               !.charges = fill[mode].charges,
                               !.matched_buy =
                                   LastBuy(trades[mode],
                                       trades[mode][fill[mode].n].instrument_key)]]
    /\ fill' = [fill EXCEPT ![mode].pc = "fields"]
    /\ UNCHANGED << USE_LIVE_TRADING, ltp_range, running, day_pnl, capital_used,
                    current_balance, saved, cache, thr, last, run, reader,
                    chain, picked, ce4 >>

\* line 338 / 341: the leg's day P&L
FillAddPnl(mode) ==
    /\ fill[mode].pc = "fields"
    /\ day_pnl' = [day_pnl EXCEPT ![mode] = DayPnlAfter(@, fill[mode].net_profit)]
    /\ fill' = [fill EXCEPT ![mode].pc = "pnl"]
    /\ UNCHANGED << USE_LIVE_TRADING, ltp_range, running, trades, capital_used,
                    current_balance, saved, cache, thr, last, run, reader,
                    chain, picked, ce4 >>

\* line 339 / 342: the leg's capital used
FillAddCapital(mode) ==
    /\ fill[mode].pc = "pnl"
    /\ capital_used' = [capital_used EXCEPT ![mode] =
                           CapitalAfter(@, fill[mode].entry_price)]
    /\ fill' = [fill EXCEPT ![mode].pc = "capital"]
    /\ UNCHANGED << USE_LIVE_TRADING, ltp_range, running, trades, day_pnl,
                    current_balance, saved, cache, thr, last, run, reader,
                    chain, picked, ce4 >>

\* line 343, the read of current_balance
FillReadBalance(mode) ==
    /\ fill[mode].pc = "capital"
    /\ fill' = [fill EXCEPT ![mode].pc = "read", ![mode].balance = current_balance]
    /\ UNCHANGED << USE_LIVE_TRADING, ltp_range, running, ledgerVars, cache, thr,
                    last, run, reader, chain, picked, ce4 >>

\* line 343, the write of current_balance
FillWriteBalance(mode) ==
    /\ fill[mode].pc = "read"
    /\ current_balance' = fill[mode].balance + fill[mode].net_profit
    /\ fill' = [fill EXCEPT ![mode].pc = "written"]
    /\ UNCHANGED << USE_LIVE_TRADING, ltp_range, running, trades, day_pnl,
                    capital_used, saved, cache, thr, last, run, reader,
                    chain, picked, ce4 >>

\* line 344: the record's day_pnl; place_order returns
FillSetDayPnl(mode) ==
    /\ fill[mode].pc = "written"
    /\ trades' = [trades EXCEPT ![mode][fill[mode].n].day_pnl = Some(day_pnl[mode])]
    /\ fill' = [fill EXCEPT ![mode] = NoFill]
    /\ UNCHANGED << USE_LIVE_TRADING, ltp_range, running, day_pnl, capital_used,
                    current_balance, saved, cache, thr, last, run, reader,
                    chain, picked, ce4 >>

\* get_full_summary, line 421
SummaryPnl ==
    /\ reader.pc = "idle"
    /\ reader' = [NoReader EXCEPT !.pc = "pnl",
                     !.overall_day_pnl = day_pnl["CE"] + day_pnl["PE"]]
    /\ UNCHANGED << USE_LIVE_TRADING, ltp_range, running, ledgerVars, cache, thr,
                    last, run, fill, chain, picked, ce4 >>

\* get_full_summary, line 422
SummaryCapital ==
    /\ reader.pc = "pnl"
    /\ reader' = [reader EXCEPT !.pc = "capital",
                     !.overall_capital_used =
                         capital_used["CE"] + capital_used["PE"]]
    /\ UNCHANGED << USE_LIVE_TRADING, ltp_range, running, ledgerVars, cache, thr,
                    last, run, fill, chain, picked, ce4 >>

\* get_full_summary, lines 425-441: the dictionary is built and returned
SummaryReturn ==
    /\ reader.pc = "capital"
    /\ reader' = [reader EXCEPT !.pc = "idle", !.out = Some(
           [ce |-> [day_pnl |-> day_pnl["CE"],
                    capital_used |-> capital_used["CE"], trades |-> trades["CE"]],
            pe |-> [day_pnl |-> day_pnl["PE"],
                    capital_used |-> capital_used["PE"], trades |-> trades["PE"]],
            overall |-> [day_pnl |-> reader.overall_day_pnl,
                         capital_used |-> reader.overall_capital_used,
                         current_balance |-> current_balance]])]
    /\ UNCHANGED << USE_LIVE_TRADING, ltp_range, running, ledgerVars, cache, thr,
                    last, run, fill, chain, picked, ce4 >>

RaceInit == InitWith({NoKey})

RaceNext ==
    \/ \E mode \in Legs, instrument_key \in OneKey, side \in {"BUY", "SELL"},
          price \in FewPrices :
          FillAppend(mode, instrument_key, side, price)
             /\ TotalTrades' <= MaxTotalTrades
    \/ \E mode \in Legs : FillSetFields(mode)
    \/ \E mode \in Legs : FillAddPnl(mode)
    \/ \E mode \in Legs : FillAddCapital(mode)
    \/ \E mode \in Legs : FillReadBalance(mode)
    \/ \E mode \in Legs : FillWriteBalance(mode)
    \/ \E mode \in Legs : FillSetDayPnl(mode)
    \/ SummaryPnl
    \/ SummaryCapital
    \/ SummaryReturn

RaceSpec == RaceInit /\ [][RaceNext]_vars

\* ==================================================================
\* Properties
\* ==================================================================
Flat(s) == ~s.bought /\ s.entry = None /\ s.stop = None /\ s.peak = None

\* the threads that run run_option_loop for the leg
LiveThreads(leg) ==
    {t \in Threads : thr[t].leg = leg /\ thr[t].pc \notin {"unborn", "done"}}

\* the BUY records of a trade list that no later SELL record on the same
\* instrument follows
OpenBuys(list) ==
    {i \in 1 .. Len(list) :
        /\ list[i].action = "BUY"
        /\ ~ \E j \in (i + 1) .. Len(list) :
                /\ list[j].action = "SELL"
                /\ list[j].instrument_key = list[i].instrument_key}

\* C1: a leg's trade log holds at most one BUY record that no later SELL
\* record on the same instrument follows (one runner per leg).
C1_AtMostOneOpenBuy ==
    \A leg \in Legs : Cardinality(OpenBuys(trades[leg])) <= 1

\* C2: a process_price_update call that finds the tick out of range while
\* bought places a SELL (before it clears the position and rotates).
C2_SellBeforeDiscard ==
    \A t \in Threads :
        (last[t].branch = "range" /\ last[t].was_bought)
            => last[t].order = "SELL"

\* C3: when the exit rule's SELL fails, the position stays LONG with entry,
\* stop and peak kept.
C3_FailedSellStaysLong ==
    \A t \in Threads :
        (last[t].branch = "exit" /\ ~last[t].ok)
            => /\ thr[t].bought
               /\ thr[t].entry # None /\ thr[t].stop # None /\ thr[t].peak # None

\* C4: process_price_update never places a BUY while the position is
\* already LONG, whatever the ticks and the results of order placement.
C4_NoBuyWhileLong ==
    \A t \in Threads : last[t].order = "BUY" => ~last[t].was_bought

\* a rising tick arrived while LONG (and placed no BUY)
C4_Witness ==
    \E t \in Threads :
        /\ last[t].was_bought
        /\ last[t].prev # None
        /\ last[t].ltp > Val(last[t].prev)
        /\ thr[t].bought

\* C5: at most one run_option_loop thread exists per leg at any time.
C5_OneRunnerPerLeg ==
    \A leg \in Legs : Cardinality(LiveThreads(leg)) <= 1

\* the sum of net_profit over the SELL records among the first n records
RECURSIVE SumNet(_, _)
SumNet(list, n) ==
    IF n = 0 THEN 0
    ELSE SumNet(list, n - 1)
         + (IF list[n].action = "SELL" /\ list[n].net_profit # None
            THEN Val(list[n].net_profit) ELSE 0)

SummaryOf(leg) == IF leg = "CE" THEN get_full_summary.ce ELSE get_full_summary.pe

\* C6 as stated: the day P&L that get_full_summary returns for a leg is the
\* sum of net_profit over the leg's SELL records, and every SELL record's
\* day_pnl is the sum of net_profit over the SELL records up to it.
C6_Original ==
    \A leg \in Legs :
        LET list == SummaryOf(leg).trades
        IN  /\ SummaryOf(leg).day_pnl = SumNet(list, Len(list))
            /\ \A i \in 1 .. Len(list) :
                  list[i].action = "SELL"
                      => list[i].day_pnl = Some(SumNet(list, i))

\* C6 as amended: the day P&L that get_full_summary returns for a leg is
\* the sum of net_profit over the leg's SELL records; every SELL record for
\* which a BUY was found has as day_pnl the sum of net_profit over the SELL
\* records up to it, and a SELL record for which none was found has no
\* day_pnl (None).
C6_DayPnlIsSumOfNet ==
    \A leg \in Legs :
        LET list == SummaryOf(leg).trades
        IN  /\ SummaryOf(leg).day_pnl = SumNet(list, Len(list))
            /\ \A i \in 1 .. Len(list) :
                  list[i].action = "SELL"
                      => IF list[i].net_profit # None
                         THEN list[i].day_pnl = Some(SumNet(list, i))
                         ELSE list[i].day_pnl = None

\* a leg's log with a SELL that found its BUY followed by a SELL on an
\* instrument without a BUY
C6_Witness ==
    \E leg \in Legs :
        \E i, j \in 1 .. Len(trades[leg]) :
            /\ i < j
            /\ trades[leg][i].action = "SELL" /\ trades[leg][i].net_profit # None
            /\ trades[leg][j].action = "SELL" /\ trades[leg][j].net_profit = None

\* C7: no BUY record is the entry of more than one SELL's profit
\* computation.
C7_BuyMatchedOnce ==
    \A leg \in Legs :
        \A i, j \in 1 .. Len(trades[leg]) :
            (/\ i < j
             /\ trades[leg][i].action = "SELL" /\ trades[leg][j].action = "SELL"
             /\ trades[leg][i].matched_buy # 0)
                => trades[leg][j].matched_buy # trades[leg][i].matched_buy

\* C8: after process_price_update handled a tick outside the LTP range the
\* position is FLAT, the call has placed no order, and ensure_instrument
\* was entered (the thread is in it, or it has returned).
C8_OutOfRangeFlatAndRotating ==
    \A t \in Threads :
        last[t].branch = "range"
            => /\ Flat(thr[t])
               /\ last[t].order = "NONE" /\ last[t].appended = 0
               /\ \/ thr[t].pc = "ensure" /\ thr[t].ctx = "range"
                  \/ last[t].rotated

\* an out-of-range tick arrived while LONG, and the rotation has finished
C8_Witness ==
    \E t \in Threads :
        /\ last[t].branch = "range" /\ last[t].was_bought
        /\ last[t].rotated /\ thr[t].pc = "loop"

\* C9: when the entry rule's BUY fails, the position stays FLAT, nothing is
\* appended to the leg's log, day P&L and capital used do not change, and
\* prev_price is the tick's ltp.
C9_FailedBuyLeavesFlat ==
    \A t \in Threads :
        (last[t].branch = "entry" /\ ~last[t].ok)
            => /\ Flat(thr[t])
               /\ last[t].appended = 0
               /\ last[t].pnl_delta = 0 /\ last[t].capital_delta = 0
               /\ thr[t].prev_price = Some(last[t].ltp)

\* the entry rule fired and the broker refused the BUY
C9_Witness ==
    \E t \in Threads :
        /\ last[t].branch = "entry" /\ last[t].order = "BUY" /\ ~last[t].ok
        /\ USE_LIVE_TRADING

\* C10: bought is true iff entry, stop and peak are all set; no strategy is
\* half-open.
C10_BoughtIffAllSet ==
    \A t \in Threads :
        /\ thr[t].bought
             <=> (thr[t].entry # None /\ thr[t].stop # None /\ thr[t].peak # None)
        /\ ~thr[t].bought
             => (thr[t].entry = None /\ thr[t].stop = None /\ thr[t].peak = None)

\* a position was opened and the exit rule has closed it
C10_Witness ==
    \E t \in Threads :
        /\ last[t].branch = "exit" /\ last[t].was_bought
        /\ ~thr[t].bought /\ thr[t].peak = None

\* C11: the exit rule applies the tight trailing distance (the smaller of
\* TRAIL_OFFSET and TRAIL_INITIAL) when ltp is more than TRAIL_THRESHOLD
\* above entry, and the looser one (the greater) while ltp is at most
\* entry + TRAIL_THRESHOLD.
C11_TightWhenFar ==
    \A t \in Threads :
        last[t].branch \in {"hold", "exit"}
            => IF last[t].ltp > Val(last[t].entry) + TRAIL_THRESHOLD
               THEN last[t].trail_exit = Some(Min(TRAIL_OFFSET, TRAIL_INITIAL))
               ELSE last[t].trail_exit = Some(Max(TRAIL_OFFSET, TRAIL_INITIAL))

\* C12 (scenario A): with the LTP range 90 .. 110, a FLAT strategy with
\* previous price 100 answers the tick 105 with a BUY, and once the BUY
\* is placed it is LONG with entry 105, stop 85 and peak 105; it answers
\* the next tick, 95, with a SELL at 95, having left peak at 105 and
\* computed trail_stop = 102, and is FLAT afterwards.
C12_ScenarioA ==
    \A t \in Threads :
        /\ (/\ last[t].branch # "none" /\ ~last[t].was_bought
             /\ last[t].prev = Some(100) /\ last[t].ltp = 105)
               => /\ last[t].order = "BUY"
                  /\ last[t].ok
                        => /\ thr[t].bought
                           /\ thr[t].entry = Some(105)
                           /\ thr[t].stop = Some(85)
                           /\ thr[t].peak = Some(105)
                           /\ trades[thr[t].leg][Len(trades[thr[t].leg])].action = "BUY"
                           /\ trades[thr[t].leg][Len(trades[thr[t].leg])].price = 105
        /\ (/\ last[t].was_bought /\ last[t].entry = Some(105)
             /\ last[t].peak_before = Some(105)
             /\ last[t].prev = Some(105) /\ last[t].ltp = 95)
               => /\ last[t].branch = "exit" /\ last[t].order = "SELL"
                  /\ last[t].peak = Some(105)
                  /\ last[t].trail_stop = Some(102)
                  /\ Flat(thr[t])
                  /\ last[t].ok
                        => /\ trades[thr[t].leg][Len(trades[thr[t].leg])].action = "SELL"
                           /\ trades[thr[t].leg][Len(trades[thr[t].leg])].price = 95

C15_TrailStopNeverFalls ==
    \A t \in Threads :
        (last[t].branch \in {"hold", "exit"} /\ run[t].prev_trail_stop # None)
            => Val(run[t].trail_stop) >= Val(run[t].prev_trail_stop)

\* C16: when a process_price_update(ltp) call has returned (in the
\* out-of-range branch: when its ensure_instrument has returned),
\* prev_price is that call's ltp, whichever branch it took.
C16_PrevPriceIsTick ==
    \A t \in Threads :
        (/\ last[t].branch \in {"range", "entry", "exit", "hold", "flat"}
         /\ last[t].branch = "range" => last[t].rotated)
            => thr[t].prev_price = Some(last[t].ltp)

\* C17: process_price_update places a BUY exactly when the position is
\* FLAT, a previous tick price exists, the tick is inside
\* [LTP_LOWER_BOUND, LTP_UPPER_BOUND] and ltp > prev_price; after a
\* successful BUY the position is LONG with entry = ltp,
\* stop = ltp - STOP_LOSS_OFFSET and peak = ltp.
C17_BuyExactlyOnUptick ==
    \A t \in Threads :
        last[t].branch \in {"range", "entry", "exit", "hold", "flat"}
            => /\ last[t].order = "BUY"
                    <=> /\ ~last[t].was_bought
                        /\ last[t].prev # None
                        /\ LTP_LOWER_BOUND <= last[t].ltp
                        /\ last[t].ltp <= LTP_UPPER_BOUND
                        /\ last[t].ltp > Val(last[t].prev)
               /\ (last[t].order = "BUY" /\ last[t].ok)
                    => /\ thr[t].bought
                       /\ thr[t].entry = Some(last[t].ltp)
                       /\ thr[t].stop = Some(last[t].ltp - STOP_LOSS_OFFSET)
                       /\ thr[t].peak = Some(last[t].ltp)
                       /\ last[t].appended = 1

\* a BUY was placed on an uptick and the position is LONG
C17_Witness ==
    \E t \in Threads :
        /\ last[t].order = "BUY" /\ last[t].ok /\ thr[t].bought
        /\ last[t].ltp > Val(last[t].prev)
        /\ trades[thr[t].leg][Len(trades[thr[t].leg])].action = "BUY"
        /\ trades[thr[t].leg][Len(trades[thr[t].leg])].price = last[t].ltp

\* the exact total of calculate_charges for the SELL record i of a list and
\* the BUY record that place_order found for it
ExactTotalOf(list, i) ==
    calculate_charges(list[list[i].matched_buy].price, list[i].price,
                      list[i].quantity).total

\* what (x - e) * q is, in paise, for the SELL record i of a list
GrossOf(list, i) ==
    (list[i].price - list[list[i].matched_buy].price) * list[i].quantity * 100

\* the SELL records of a list for which place_order found a BUY
MatchedSells(list) ==
    {i \in 1 .. Len(list) : list[i].action = "SELL" /\ list[i].matched_buy # 0}

\* C18 as stated: a SELL record that follows its BUY at e with exit x and
\* quantity q = LOT_SIZE has gross_profit = (x - e) * q and
\* net_profit = gross_profit - charges.total, and this net_profit is
\* (x - e) * q - calculate_charges(e, x, q).total.
C18_Original ==
    \A leg \in Legs :
        \A i \in MatchedSells(trades[leg]) :
            LET rec == trades[leg][i]
            IN  /\ rec.quantity = LOT_SIZE
                /\ rec.gross_profit = Some(GrossOf(trades[leg], i))
                /\ Val(rec.net_profit)
                      = Val(rec.gross_profit) - Val(rec.charges).total
                /\ ExactTotalOf(trades[leg], i)[2] = 0
                /\ Val(rec.net_profit)
                      = GrossOf(trades[leg], i) - ExactTotalOf(trades[leg], i)[1]

\* C18 as amended: such a SELL record has gross_profit = (x - e) * q and
\* net_profit = gross_profit - charges.total, and this net_profit is
\* (x - e) * q - round(calculate_charges(e, x, q).total, 2): the total is
\* rounded to the paisa before it is subtracted.
C18_NetIsGrossLessRoundedCharges ==
    \A leg \in Legs :
        \A i \in MatchedSells(trades[leg]) :
            LET rec == trades[leg][i]
            IN  /\ rec.quantity = LOT_SIZE
                /\ rec.gross_profit = Some(GrossOf(trades[leg], i))
                /\ Val(rec.net_profit)
                      = Val(rec.gross_profit) - Val(rec.charges).total
                /\ Val(rec.net_profit)
                      = GrossOf(trades[leg], i)
                          - Round2(ExactTotalOf(trades[leg], i))

\* a SELL found its BUY, and the exact total of the charges is rounded up
C18_Witness ==
    \E leg \in Legs :
        \E i \in MatchedSells(trades[leg]) :
            /\ 2 * ExactTotalOf(trades[leg], i)[2] > FracUnit
            /\ trades[leg][i].net_profit # None
            /\ trades[leg][i].price # trades[leg][trades[leg][i].matched_buy].price

\* the leg's log holds no BUY on the instrument
NoBuyOn(leg, instrument_key) ==
    \A i \in 1 .. Len(trades[leg]) :
        ~(trades[leg][i].action = "BUY"
          /\ trades[leg][i].instrument_key = instrument_key)

\* C19: when place_order records a SELL for an instrument with no BUY in
\* the leg's log, the record is appended with gross_profit and net_profit
\* None, the leg's day P&L and capital used and the balance are unchanged,
\* and place_order returns True; in paper trading every such SELL is
\* recorded.
C19_UnmatchedSellRecorded ==
    (/\ last[1].branch = "direct" /\ last[1].order = "SELL"
     /\ NoBuyOn(last[1].leg, last[1].key))
        => /\ last[1].appended = 1
              => /\ last[1].ok
                 /\ LET list == trades[last[1].leg]
                    IN  /\ list[Len(list)].action = "SELL"
                        /\ list[Len(list)].instrument_key = last[1].key
                        /\ list[Len(list)].gross_profit = None
                        /\ list[Len(list)].net_profit = None
                 /\ last[1].pnl_delta = 0
                 /\ last[1].capital_delta = 0
                 /\ last[1].balance_delta = 0
           /\ ~USE_LIVE_TRADING => last[1].appended = 1
           /\ last[1].ok <=> last[1].appended = 1

\* a SELL on an instrument without a BUY was recorded in a leg whose log
\* holds a BUY on another instrument
C19_Witness ==
    /\ last[1].branch = "direct" /\ last[1].order = "SELL" /\ last[1].ok
    /\ NoBuyOn(last[1].leg, last[1].key)
    /\ \E i \in 1 .. Len(trades[last[1].leg]) :
           trades[last[1].leg][i].action = "BUY"
    /\ trades[last[1].leg][Len(trades[last[1].leg])].net_profit = None

\* C20: once a leg's flag is cleared, every runner thread of the leg leaves
\* run_option_loop, whatever it is doing at that moment (ensure_instrument
\* included).
C20_StopLeadsToExit ==
    \A t \in Threads :
        (thr[t].pc \notin {"unborn", "done"} /\ ~running[thr[t].leg])
            ~> (thr[t].pc = "done")

\* C21: when run_option_loop leaves its polling loop with an open position
\* a closing SELL is attempted (once: the thread ends with it), and when
\* it leaves the loop FLAT none is.
C21_SquareOffOnce ==
    \A t \in Threads :
        last[t].branch = "squareoff"
            => /\ thr[t].pc = "done"
               /\ last[t].was_bought <=> last[t].order = "SELL"

\* no place_order call is in progress
Quiet == \A l \in Legs : fill[l].pc = "idle"

\* C22: once the fills of the two legs have returned, current_balance is
\* its initial value plus the net_profit of all SELL records of both legs
\* that found their BUY, however the two calls were interleaved.
C22_NoLostBalanceUpdate ==
    Quiet
        => current_balance
             = InitialBalance + SumNet(trades["CE"], Len(trades["CE"]))
                              + SumNet(trades["PE"], Len(trades["PE"]))

\* the SELL records of a returned trade list that follow a BUY of their
\* own instrument
SellsAfterBuy(list) ==
    {i \in 1 .. Len(list) :
        /\ list[i].action = "SELL"
        /\ \E j \in 1 .. i - 1 :
              /\ list[j].action = "BUY"
              /\ list[j].instrument_key = list[i].instrument_key}

\* C23: every summary that get_full_summary returns while the runners
\* record fills is a consistent snapshot: its overall day_pnl and
\* capital_used are the sums of its own per-leg values, and every SELL in
\* it that follows its BUY carries its net_profit.
C23_SummaryIsSnapshot ==
    reader.out # None
        => LET summary == Val(reader.out)
           IN  /\ summary.overall.day_pnl
                    = summary.ce.day_pnl + summary.pe.day_pnl
               /\ summary.overall.capital_used
                    = summary.ce.capital_used + summary.pe.capital_used
               /\ \A leg \in {summary.ce, summary.pe} :
                     \A i \in SellsAfterBuy(leg.trades) :
                         leg.trades[i].net_profit # None

\* the slice of the ledger that belongs to a leg
Slice(leg) == << trades[leg], day_pnl[leg], capital_used[leg], saved[leg] >>

OtherLeg(leg) == IF leg = "CE" THEN "PE" ELSE "CE"

\* C24: a step that changes a leg's slice of the ledger (trade list, day
\* P&L, capital used) is the step of one runner of that leg; it leaves the
\* other leg's slice and every other runner's strategy fields as they were.
C24_LegsIsolated ==
    [][\A leg \in Legs :
          Slice(leg)' # Slice(leg)
              => /\ Slice(OtherLeg(leg))' = Slice(OtherLeg(leg))
                 /\ \E t \in Threads :
                       /\ thr[t].leg = leg
                       /\ last'[t].leg = leg
                       /\ last'[t].appended = 1
                       /\ \A u \in Threads \ {t} : thr'[u] = thr[u]]_vars

\* both legs have closed a position with profit booked, each on its own
\* slice
C24_Witness ==
    \A leg \in Legs :
        /\ MatchedSells(trades[leg]) # {}
        /\ day_pnl[leg] # 0
        /\ \A i \in 1 .. Len(trades[leg]) :
              trades[leg][i].strike_price_mode = leg

\* C25: save_trade_to_file is called once for every recorded fill, and
\* what it writes for a SELL that closes a BUY is the record with its final
\* gross_profit, net_profit, charges and day_pnl.
C25_SavedRecordIsFinal ==
    \A leg \in Legs :
        /\ Len(saved[leg]) = Len(trades[leg])
        /\ \A i \in 1 .. Len(trades[leg]) :
              /\ saved[leg][i].action = trades[leg][i].action
              /\ saved[leg][i].price = trades[leg][i].price
              /\ i \in MatchedSells(trades[leg])
                    => /\ saved[leg][i].gross_profit = trades[leg][i].gross_profit
                       /\ saved[leg][i].net_profit = trades[leg][i].net_profit
                       /\ saved[leg][i].charges = trades[leg][i].charges
                       /\ saved[leg][i].day_pnl = trades[leg][i].day_pnl

\* the step is an iteration of t's polling loop whose fetch failed
FailedFetch(t) ==
    /\ thr[t].pc = "loop"
    /\ thr'[t] # thr[t]
    /\ thr'[t].pc # "done"
    /\ last'[t] = NoCall

\* the step is an iteration of t's polling loop whose fetch gave a price
Fetched(t) ==
    /\ thr[t].pc = "loop"
    /\ << thr[t], last[t] >>' # << thr[t], last[t] >>
    /\ last'[t].branch \notin {"none", "squareoff"}

\* C26: the instrument is given up for failed fetches exactly in the
\* iteration in which the count of consecutive failed fetches reaches 3;
\* an iteration that got a price leaves the count at 0, and the count is 0
\* again when the invalidation is over.
C26_ThirdFailureInvalidates ==
    [][\A t \in Threads :
          /\ FailedFetch(t)
                => IF thr[t].consecutive_errors + 1 = 3
                   THEN /\ thr'[t].pc = "ensure"
                        /\ thr'[t].ctx = "errors"
                        /\ Flat(thr'[t])
                   ELSE /\ thr'[t].ctx # "errors"
                        /\ thr'[t].consecutive_errors
                             = thr[t].consecutive_errors + 1
                        /\ thr'[t].consecutive_errors < 3
          /\ (thr'[t].ctx = "errors" /\ thr[t].ctx # "errors")
                => FailedFetch(t) /\ thr[t].consecutive_errors = 2
          /\ (Fetched(t) /\ thr'[t].pc = "loop")
                => thr'[t].consecutive_errors = 0
          /\ (thr[t].ctx \in {"errors", "range"} /\ thr'[t].ctx # thr[t].ctx)
                => thr'[t].consecutive_errors = 0]_vars

\* the third failed fetch in a row has just invalidated the instrument
C26_Witness ==
    \E t \in Threads :
        /\ thr[t].pc = "ensure"
        /\ thr[t].ctx = "errors"
        /\ thr[t].consecutive_errors = 3
        /\ thr[t].instrument_key # NoKey

RECURSIVE Pow2(_)
Pow2(n) == IF n = 0 THEN 1 ELSE 2 * Pow2(n - 1)

\* C27: inside ensure_instrument, after k - 1 failed attempts the delay
\* that the next failure will sleep (the sleep before the k-th retry) is
\* min(2 * 2^(k-1), 60): 2 at first, doubled by every failed attempt,
\* never above 60.
C27_BackoffDoublesToCap ==
    \A t \in Threads :
        thr[t].pc = "ensure"
            => /\ thr[t].retry_delay = Min(2 * Pow2(thr[t].attempts), 60)
               /\ 2 <= thr[t].retry_delay
               /\ thr[t].retry_delay <= 60

\* a call whose attempts failed often enough for the delay to be capped
C27_Witness ==
    \E t \in Threads :
        /\ thr[t].pc = "ensure"
        /\ thr[t].attempts >= 5
        /\ thr[t].retry_delay = 60

\* the step is the return of t's ensure_instrument call
Returned(t) ==
    /\ thr[t].pc = "ensure"
    /\ thr'[t].pc # "ensure" \/ thr'[t].ctx # thr[t].ctx

InBounds(ltp) == ltp # None /\ LTP_LOWER_BOUND <= Val(ltp) /\ Val(ltp) <= LTP_UPPER_BOUND

\* C28: when ensure_instrument returns, the LTP it observed (the thread's
\* field ltp) for the instrument it selected lies in [LTP_LOWER_BOUND, LTP_UPPER_BOUND] and is
\* the strategy's prev_price; an attempt whose LTP is missing or out of
\* range installs nothing.
C28_RotationInstallsInRange ==
    [][\A t \in Threads :
          thr[t].pc = "ensure"
              => IF Returned(t)
                 THEN /\ thr'[t].instrument_key # NoKey
                      /\ thr'[t].instrument_key = cache'[thr[t].leg]
                      /\ InBounds(thr'[t].prev_price)
                      /\ thr'[t].pc = "loop"
                            => thr'[t].ltp = thr'[t].prev_price
                 ELSE /\ thr'[t].instrument_key = thr[t].instrument_key
                      /\ thr'[t].prev_price = thr[t].prev_price
                      /\ thr'[t].ltp = None]_vars

\* a runner back in its loop on the instrument that a rotation selected
\* after failed attempts elsewhere is witnessed by C28_Witness
C28_Witness ==
    \E t \in Threads :
        /\ thr[t].pc = "loop"
        /\ last[t].rotated
        /\ thr[t].instrument_key # last[t].key
        /\ InBounds(thr[t].ltp)
        /\ thr[t].prev_price = thr[t].ltp

\* the instrument of the latest BUY record of a list (NoKey: none)
BoughtOn(list) ==
    LET hits == {i \in 1 .. Len(list) : list[i].action = "BUY"}
    IN  IF hits = {} THEN NoKey
        ELSE list[CHOOSE i \in hits : \A j \in hits : j <= i].instrument_key

\* C29: whenever a runner's instrument is replaced its position is empty
\* afterwards, so that entry, stop and peak are never carried to another
\* instrument, and a runner that holds a position holds it on the
\* instrument of its BUY, where every SELL is then placed.
C29_ReplacedOnlyWhenFlat ==
    [][\A t \in Threads :
          /\ thr'[t].instrument_key # thr[t].instrument_key => Flat(thr'[t])
          /\ thr'[t].bought
                => thr'[t].instrument_key = BoughtOn(trades'[thr'[t].leg])]_vars

\* the strike of the first listed instrument of a side whose premium lies
\* in [price1, price2] (None: there is none)
FirstInRange(instruments, option_type, price1, price2) ==
    LET hits == {i \in 1 .. Len(instruments) :
                    /\ instruments[i].option_type = option_type
                    /\ price1 <= instruments[i].ltp
                    /\ instruments[i].ltp <= price2}
    IN  IF hits = {} THEN None
        ELSE Some(instruments[CHOOSE i \in hits : \A j \in hits : i <= j].strike_price)

\* C30: the strikes that strike_prices returns are, for each side on its
\* own, the first listed strike whose LTP on that side lies in
\* [price1, price2].
C30_FirstStrikeInRange ==
    (picked.called /\ picked.expiry # 0)
        => /\ picked.ce_strike
                = FirstInRange(chain, "CE", LTP_LOWER_BOUND, LTP_UPPER_BOUND)
           /\ picked.pe_strike
                = FirstInRange(chain, "PE", LTP_LOWER_BOUND, LTP_UPPER_BOUND)

\* the entries of a chain that have a strike and whose premium on the side
\* lies in the configured range
InRangeEntries(data, side) ==
    {i \in 1 .. Len(data) :
        LET ltp == IF side = "CE" THEN data[i].ce_ltp ELSE data[i].pe_ltp
        IN  /\ data[i].strike_price # 0
            /\ LTP_LOWER_BOUND <= ltp
            /\ ltp <= LTP_UPPER_BOUND}

\* the strike of the first of them, 0 if there is none
FirstScanned(data, side) ==
    LET hits == InRangeEntries(data, side)
    IN  IF hits = {} THEN 0
        ELSE data[CHOOSE i \in hits : \A j \in hits : i <= j].strike_price

\* the strike returned for a side
Picked(side) == Val(IF side = "CE" THEN picked.ce_strike ELSE picked.pe_strike)

\* C31: when findstrikeprice.strike_prices has scanned a chain, the strike
\* it returns for a side is the strike of the first entry in scan order
\* whose option LTP on that side lies in [lower bound, upper bound] (0 if
\* no entry has one).
C31_FirstInScanOrder ==
    (picked.called /\ picked.expiry # 0)
        => \A side \in Legs : Picked(side) = FirstScanned(chain.data, side)

\* the CE strike returned is that of the second entry, which is not the
\* first entry of the chain, and the PE strike that of the first
C31_Witness ==
    /\ picked.called
    /\ picked.expiry # 0
    /\ Len(chain.data) = 2
    /\ InRangeEntries(chain.data, "CE") = {2}
    /\ 1 \in InRangeEntries(chain.data, "PE")
    /\ chain.data[1].strike_price # chain.data[2].strike_price
    /\ Picked("CE") = chain.data[2].strike_price
    /\ Picked("PE") = chain.data[1].strike_price

\* C32: strike_prices returns strike 0 for a side on which no strike has an
\* in-range LTP, and expiry "0" when there is no expiry data, no chain, or
\* no strike that matches on either side.
C32_SentinelWhenNoMatch ==
    picked.called
        => /\ \A side \in Legs :
                 InRangeEntries(chain.data, side) = {} => Picked(side) = 0
           /\ (\/ chain.expiries = << >>
               \/ chain.data = << >>
               \/ \A side \in Legs : InRangeEntries(chain.data, side) = {})
                 => picked.expiry = 0

\* the components of a charges breakdown, total left out
Components == ChargeKeys \ {"total"}

RECURSIVE SumOver(_, _)
SumOver(c, keys) ==
    IF keys = {} THEN 0
    ELSE LET k == CHOOSE x \in keys : TRUE
         IN  c[k] + SumOver(c, keys \ {k})

RECURSIVE AmtSumOver(_, _)
AmtSumOver(c, keys) ==
    IF keys = {} THEN << 0, 0 >>
    ELSE LET k == CHOOSE x \in keys : TRUE
         IN  AmtAdd(c[k], AmtSumOver(c, keys \ {k}))

\* C33: for every closing SELL, the total that calculate_charges returns is
\* the sum of the seven components it returns, and the total of the charges
\* stored in the record is the sum of the seven components stored there.
C33_TotalIsSumOfComponents ==
    \A leg \in Legs :
        \A i \in MatchedSells(trades[leg]) :
            LET list == trades[leg]
                exact == calculate_charges(list[list[i].matched_buy].price,
                                           list[i].price, list[i].quantity)
                stored == Val(list[i].charges)
            IN  /\ exact.total = AmtSumOver(exact, Components)
                /\ stored.total = SumOver(stored, Components)

\* the quantity open on an instrument after the first n records of a log,
\* each SELL taking what is open, up to its own quantity
RECURSIVE OpenQuantity(_, _, _)
OpenQuantity(list, n, instrument_key) ==
    IF n = 0 THEN 0
    ELSE LET before == OpenQuantity(list, n - 1, instrument_key)
             rec == list[n]
         IN  IF rec.instrument_key # instrument_key THEN before
             ELSE IF rec.action = "BUY" THEN before + rec.quantity
             ELSE before - Min(rec.quantity, before)

\* the SELL records of a log that close open quantity
CompletedSells(list) ==
    {i \in 1 .. Len(list) :
        /\ list[i].action = "SELL"
        /\ OpenQuantity(list, i - 1, list[i].instrument_key) > 0}

\* those of them whose net profit is positive
NetWinners(list) ==
    {i \in CompletedSells(list) :
        list[i].net_profit # None /\ Val(list[i].net_profit) > 0}

\* C34: the win rate computed over a log is 100 times the number of
\* completed SELLs with positive net profit, divided by the number of
\* completed SELLs; it is 0 when there is none, lies in [0, 100], and a SELL
\* with nothing open on its instrument is not counted as completed.
C34_WinRateOfNetProfit ==
    reader.out # None
        => LET list == trades[Val(reader.out).leg]
               pnl == Val(reader.out).pnl
               rate == pnl.win_rate
           IN  /\ pnl.completed_trades = Cardinality(CompletedSells(list))
               /\ 0 <= rate[1] /\ rate[1] <= 100 * rate[2]
               /\ IF CompletedSells(list) = {} THEN rate[1] = 0
                  ELSE rate[1] * Cardinality(CompletedSells(list))
                         = 100 * Cardinality(NetWinners(list)) * rate[2]

\* entry_price * LOT_SIZE, in paise, summed over the first n records of a
\* log that are SELLs for which place_order found a BUY
RECURSIVE SumEntryValue(_, _)
SumEntryValue(list, n) ==
    IF n = 0 THEN 0
    ELSE SumEntryValue(list, n - 1)
         + (IF n \in MatchedSells(list)
            THEN list[list[n].matched_buy].price * LOT_SIZE * 100
            ELSE 0)

C36_SummaryTracksTrades ==
    LET list == ce4.paper_trades
        n == Len(list)
    IN  (n > 0 /\ n \in MatchedSells(list))
            => /\ get_summary.day_pnl = << Val(list[n].day_pnl), 0 >>
               /\ get_summary.capital_used = SumEntryValue(list, n)

\* the step is a process_price_update call of thread t
PriceUpdate(t) ==
    /\ thr[t].pc = "loop"
    /\ << thr[t], last[t] >>' # << thr[t], last[t] >>
    /\ last'[t].branch \in {"range", "entry", "exit", "hold", "flat"}

\* the record that the step appended to the log of t's leg
Appended(t) == trades'[thr[t].leg][Len(trades'[thr[t].leg])]

\* C37: one process_price_update call places at most one order.  A call
\* that places a BUY starts FLAT and records nothing but that BUY; a call
\* that places a SELL starts LONG, records nothing but that SELL and ends
\* FLAT; so a SELL comes at the earliest with the tick after the BUY.
C37_OneOrderPerTick ==
    [][/\ TotalTrades' - TotalTrades \in {0, 1}
       /\ \A t \in Threads :
             PriceUpdate(t)
                 => /\ last'[t].appended \in {0, 1}
                    /\ last'[t].appended = 1 <=> (last'[t].order # "NONE" /\ last'[t].ok)
                    /\ last'[t].order = "BUY"
                          => /\ ~thr[t].bought
                             /\ last'[t].ok
                                   => thr'[t].bought /\ Appended(t).action = "BUY"
                    /\ last'[t].order = "SELL"
                          => /\ thr[t].bought
                             /\ ~thr'[t].bought
                             /\ last'[t].ok => Appended(t).action = "SELL"]_vars

\* a runner bought on one tick and sold on the next: its leg's log is the
\* BUY followed by the SELL, and it is FLAT
C37_Witness ==
    \E t \in Threads :
        /\ last[t].branch = "exit"
        /\ last[t].order = "SELL"
        /\ last[t].ok
        /\ ~thr[t].bought
        /\ Len(trades[thr[t].leg]) = 2
        /\ trades[thr[t].leg][1].action = "BUY"
        /\ trades[thr[t].leg][2].action = "SELL"
        /\ trades[thr[t].leg][2].matched_buy = 1

\* C38: with STOP_LOSS_OFFSET 20, TRAIL_OFFSET 3, TRAIL_THRESHOLD 2 and
\* TRAIL_INITIAL 1 the fixed stop-loss is never the only trigger of an
\* exit: at every tick processed while LONG with ltp <= stop, ltp <=
\* trail_stop holds as well, every SELL of the exit rule is at a price not
\* above trail_stop, and an in-range tick processed while LONG that is at
\* least TRAIL_INITIAL below entry is answered by the exit rule and leaves
\* the strategy FLAT.
C38_StopNeverSoleTrigger ==
    \A t \in Threads :
        last[t].branch \in {"hold", "exit"}
            => /\ last[t].was_bought
               /\ InRange(last[t].ltp)
               /\ last[t].stop = Some(Val(last[t].entry) - STOP_LOSS_OFFSET)
               /\ last[t].ltp <= Val(last[t].stop)
                     => last[t].ltp <= Val(last[t].trail_stop)
               /\ last[t].branch = "exit"
                     => last[t].ltp <= Val(last[t].trail_stop)
               /\ last[t].ltp <= Val(last[t].entry) - TRAIL_INITIAL
                     => /\ last[t].branch = "exit"
                        /\ last[t].order = "SELL"
                        /\ ~thr[t].bought

\* an in-range tick at or below the stop was processed while LONG: it was
\* at or below the trailing stop too, and the strategy is FLAT
C38_Witness ==
    \E t \in Threads :
        /\ last[t].branch = "exit"
        /\ last[t].was_bought
        /\ InRange(last[t].ltp)
        /\ last[t].ltp <= Val(last[t].stop)
        /\ last[t].ltp <= Val(last[t].trail_stop)
        /\ last[t].ltp <= Val(last[t].entry) - TRAIL_INITIAL
        /\ ~thr[t].bought

====
